---------------------------- MODULE Spec2Model ----------------------------
(***************************************************************************)
(* Model of the hero-dbc transformation units (scripts/parsers/*.py).      *)
(*                                                                         *)
(* Each unit is a sequential pipeline main(): read tables, build lookups,  *)
(* join/filter, serialize.  A unit is modelled by its own specification    *)
(* (SpecRPPM, SpecRange, ...) over the shared variables below; `pc` is the *)
(* position of the running unit's main().                                  *)
(*                                                                         *)
(* Numbers.  A CSV field is text; int()/float() either convert it or raise *)
(* ValueError.  A field is modelled as a record [ok, n, d]: ok = FALSE is  *)
(* text that does not convert, otherwise the value is the rational n/d.    *)
(* PPM values are kept in units of 10^-PPM_PRECISION (the code rounds them *)
(* to that precision), so round(x, 6) is rounding of a rational to an      *)
(* integer number of units.  Python rounds the binary double; the model    *)
(* rounds the exact rational (half to even), the two agree except on exact *)
(* ties, which the input sets below avoid.                                 *)
(***************************************************************************)
EXTENDS Integers, Sequences, FiniteSets, TLC

VARIABLES
    pc,         \* position of the unit's main()
    base_ppm,   \* SpellRPPM: spell_id -> base PPM (units of 10^-6)
    modRows,    \* SpellRPPM: rows of SpellProcsPerMinuteMod.csv read so far
    mod_ppm,    \* SpellRPPM: parent_id -> mod_type -> entry
    recorded,   \* SpellRPPM: sub ids assigned by the row processed last
    ppm_ids,    \* SpellRPPM: id_parent -> id_ppm (SpellAuraOptions.csv)
    luaOut,     \* SpellRPPM: entries written to SpellRPPM.lua
    rangeRows,  \* ItemRange, SpellMeleeRange: rows of SpellRange.csv processed so far
    ranges,     \* ItemRange, SpellMeleeRange: range id -> accepted range data
    accepted,   \* ItemRange, SpellMeleeRange: pairs of the last row assigned to ranges
    misc_data,  \* SpellMeleeRange: rows of SpellMisc.csv, in two input orders
    valid_rows, \* SpellMeleeRange: process_spell_misc_data of each input order
    luaFile,    \* SpellMeleeRange: entry lines written for each input order
    spell_data,    \* Soulbinds: rows of SpellName.csv
    spell_names,   \* Soulbinds: spell id text -> name
    tree_spells,   \* Soulbinds: talent id -> spell id (GarrTalentRank.csv)
    talentRows,    \* Soulbinds: rows of GarrTalent.csv processed so far
    talent_trees,  \* Soulbinds: tree id -> tier -> ui_order -> ability
    soulbind_data, \* Soulbinds: rows of Soulbind.csv
    soulbinds,     \* Soulbinds: process_soulbinds(soulbind_data, talent_trees)
    covenants,     \* Soulbinds: process_covenants(...)
    jsonFile,      \* Soulbinds: the document written to Soulbinds.json
    effect_data,    \* SpellAuraStat: rows of SpellEffect.csv
    cpu_count,      \* SpellAuraStat: CPU_COUNT of each of two runs
    results,        \* SpellAuraStat: chunk results received from the pool, per run
    processed_data, \* SpellAuraStat: process_spell_data(spell_data), per run
    auraFile,       \* SpellAuraStat: the statements of SpellAuraStat.lua, per run
    az_exists,      \* AzeritePower: whether AzeriteEmpoweredItem.csv exists
    az_tables,      \* AzeritePower: file name -> rows, the tables read so far
    valid_sets,     \* AzeritePower: power set id -> empowered item row
    valid_powers,   \* AzeritePower: the powers of valid_powers, in insertion order
    azerite_powers, \* AzeritePower: the list of power dicts
    azFiles,        \* AzeritePower: file name -> document written
    reader,         \* table reader: the unit whose reader is called
    file_header,    \* table reader: the bytes of the header line of the file
    file_lines,     \* table reader: the bytes of each data line of the file
    read_result,    \* table reader: what the call gave its caller
    lookup_unit,    \* lookup builder: the unit whose lookup is built
    lookup_rows,    \* lookup builder: the rows of the table, in file order
    lookup,         \* lookup builder: key -> value, as the unit built it
    assembler,      \* hierarchical assembler: the unit whose tree is built
    entries,        \* hierarchical assembler: the records received so far
    nested,         \* hierarchical assembler: the nested maps built from them
    lua_unit,       \* Lua writers: the unit that writes its file
    lua_input,      \* Lua writers: the rows or records the unit starts from, in input order
    lua_file,       \* Lua writers: the lines of the file written
    batch_unit,    \* batch writer: the unit whose writer runs
    batch_n,       \* batch writer: the number of entries of the sorted data
    batch_i,       \* batch writer: the entries the loop has taken
    current_chunk, \* batch writer: the entry lines of the open batch
    chunks,        \* batch writer: the batches closed so far, in emission order
    batch_text,    \* batch writer: the text written between header and footer
    pool_unit,    \* worker pool: the unit whose rows are processed
    pool_rows,    \* worker pool: the rows given to process_spell_data, in input order
    pool_cpus,    \* worker pool: CPU_COUNT, the number of workers
    pool_done,    \* worker pool: chunk -> its result, for the chunks a worker has finished
    pool_results, \* worker pool: the results the main process has received from imap
    pool_sorted,  \* worker pool: the records returned by process_spell_data
    pool_file,    \* worker pool: the entries written to the Lua file
    csv_data,     \* SpellTickTime: the rows of SpellEffect.csv
    csv_pos,      \* SpellTickTime: the rows the grouping loop has taken
    spell_groups, \* SpellTickTime: parent id -> the effects of its kept rows, in input order
    group_keys,   \* SpellTickTime: the keys of spell_groups in insertion order
    tick_records, \* SpellTickTime: the list process_spell_data returns
    out_unit,    \* output files: the unit that writes its files
    out_writes,  \* output files: file -> the number of write calls that make its new content
    disk_before, \* output files: file -> the file before the unit ran
    disk,        \* output files: file -> the file as it is now
    out_file,    \* output files: the position in the list of files of the file being written
    out_written, \* output files: the write calls done on the open file
    filter_names, \* filter.py: the number of filters of tasks.json
    filter_tasks  \* filter.py: the state of the task of each filter submitted so far

varsRPPM == <<base_ppm, modRows, mod_ppm, recorded, ppm_ids, luaOut>>
varsRange == <<rangeRows, ranges, accepted, misc_data, valid_rows, luaFile>>

varsSoul == <<spell_data, spell_names, tree_spells, talentRows, talent_trees,
              soulbind_data, soulbinds, covenants, jsonFile>>

varsAura == <<effect_data, cpu_count, results, processed_data, auraFile>>

varsAzerite == <<az_exists, az_tables, valid_sets, valid_powers, azerite_powers,
                 azFiles>>

varsReader == <<reader, file_header, file_lines, read_result>>

varsLookup == <<lookup_unit, lookup_rows, lookup>>

varsTree == <<assembler, entries, nested>>

varsLua == <<lua_unit, lua_input, lua_file>>

varsBatch == <<batch_unit, batch_n, batch_i, current_chunk, chunks,
               batch_text>>

varsPool == <<pool_unit, pool_rows, pool_cpus, pool_done, pool_results,
              pool_sorted, pool_file>>

varsTick == <<csv_data, csv_pos, spell_groups, group_keys, tick_records>>

varsOut == <<out_unit, out_writes, disk_before, disk, out_file, out_written>>

varsFilter == <<filter_names, filter_tasks>>

vars == <<pc, varsRPPM, varsRange, varsSoul, varsAura, varsAzerite,
          varsReader, varsLookup, varsTree, varsLua, varsBatch, varsPool,
          varsTick, varsOut, varsFilter>>

\* the variables a unit does not own
notRPPM == <<varsRange, varsSoul, varsAura, varsAzerite, varsReader,
             varsLookup, varsTree, varsLua, varsBatch, varsPool, varsTick,
             varsOut, varsFilter>>
notRange == <<varsRPPM, varsSoul, varsAura, varsAzerite, varsReader,
              varsLookup, varsTree, varsLua, varsBatch, varsPool, varsTick,
              varsOut, varsFilter>>
notSoul == <<varsRPPM, varsRange, varsAura, varsAzerite, varsReader,
             varsLookup, varsTree, varsLua, varsBatch, varsPool, varsTick,
             varsOut, varsFilter>>
notAura == <<varsRPPM, varsRange, varsSoul, varsAzerite, varsReader,
             varsLookup, varsTree, varsLua, varsBatch, varsPool, varsTick,
             varsOut, varsFilter>>
notAzerite == <<varsRPPM, varsRange, varsSoul, varsAura, varsReader,
                varsLookup, varsTree, varsLua, varsBatch, varsPool, varsTick,
                varsOut, varsFilter>>
notReader == <<varsRPPM, varsRange, varsSoul, varsAura, varsAzerite,
               varsLookup, varsTree, varsLua, varsBatch, varsPool, varsTick,
               varsOut, varsFilter>>
notLookup == <<varsRPPM, varsRange, varsSoul, varsAura, varsAzerite,
               varsReader, varsTree, varsLua, varsBatch, varsPool, varsTick,
               varsOut, varsFilter>>
notTree == <<varsRPPM, varsRange, varsSoul, varsAura, varsAzerite,
             varsReader, varsLookup, varsLua, varsBatch, varsPool, varsTick,
             varsOut, varsFilter>>
notLua == <<varsRPPM, varsRange, varsSoul, varsAura, varsAzerite, varsReader,
            varsLookup, varsTree, varsBatch, varsPool, varsTick, varsOut,
            varsFilter>>
notBatch == <<varsRPPM, varsRange, varsSoul, varsAura, varsAzerite,
              varsReader, varsLookup, varsTree, varsLua, varsPool, varsTick,
              varsOut, varsFilter>>
notPool == <<varsRPPM, varsRange, varsSoul, varsAura, varsAzerite,
             varsReader, varsLookup, varsTree, varsLua, varsBatch, varsTick,
             varsOut, varsFilter>>
notTick == <<varsRPPM, varsRange, varsSoul, varsAura, varsAzerite,
             varsReader, varsLookup, varsTree, varsLua, varsBatch, varsPool,
             varsOut, varsFilter>>
notOut == <<varsRPPM, varsRange, varsSoul, varsAura, varsAzerite, varsReader,
            varsLookup, varsTree, varsLua, varsBatch, varsPool, varsTick,
            varsFilter>>
notFilter == <<varsRPPM, varsRange, varsSoul, varsAura, varsAzerite,
               varsReader, varsLookup, varsTree, varsLua, varsBatch,
               varsPool, varsTick, varsOut>>

\* the state of a unit that is not running
IdleRPPM ==
    /\ base_ppm = << >> /\ modRows = << >> /\ mod_ppm = << >>
    /\ recorded = {} /\ ppm_ids = << >> /\ luaOut = << >>
IdleRange ==
    /\ rangeRows = << >> /\ ranges = << >> /\ accepted = {}
    /\ misc_data = << >> /\ valid_rows = << >> /\ luaFile = << >>
IdleSoul ==
    /\ spell_data = << >> /\ spell_names = << >> /\ tree_spells = << >>
    /\ talentRows = << >> /\ talent_trees = << >> /\ soulbind_data = << >>
    /\ soulbinds = << >> /\ covenants = << >> /\ jsonFile = << >>
IdleAura ==
    /\ effect_data = << >> /\ cpu_count = << >> /\ results = << >>
    /\ processed_data = << >> /\ auraFile = << >>
AzeriteAtStart ==
    /\ az_tables = << >> /\ valid_sets = << >> /\ valid_powers = << >>
    /\ azerite_powers = << >> /\ azFiles = << >>
IdleAzerite == az_exists = FALSE /\ AzeriteAtStart
IdleReader ==
    /\ reader = "" /\ file_header = << >> /\ file_lines = << >> /\ read_result = << >>
IdleLookup ==
    /\ lookup_unit = "" /\ lookup_rows = << >> /\ lookup = << >>
IdleTree ==
    /\ assembler = "" /\ entries = << >> /\ nested = << >>
IdleLua ==
    /\ lua_unit = "" /\ lua_input = << >> /\ lua_file = << >>

IdleBatch ==
    /\ batch_unit = "" /\ batch_n = 0 /\ batch_i = 0 /\ current_chunk = << >> /\ chunks = << >> /\ batch_text = << >>
IdlePool ==
    /\ pool_unit = "" /\ pool_rows = << >> /\ pool_cpus = 0 /\ pool_done = << >> /\ pool_results = << >> /\ pool_sorted = << >> /\ pool_file = << >>
IdleTick ==
    /\ csv_data = << >> /\ csv_pos = 0 /\ spell_groups = << >> /\ group_keys = << >> /\ tick_records = << >>
IdleOut ==
    /\ out_unit = "" /\ out_writes = << >> /\ disk_before = << >> /\ disk = << >> /\ out_file = 0 /\ out_written = 0
IdleFilter ==
    /\ filter_names = 0 /\ filter_tasks = << >>
-----------------------------------------------------------------------------
(* Bounds of the model *)

\* longest modifier table (rows of SpellProcsPerMinuteMod.csv)
MaxModRows == 2
\* longest range table (rows of SpellRange.csv)
MaxRangeRows == 2
\* longest talent table (rows of GarrTalent.csv)
MaxTalentRows == 2
\* rows of the long SpellEffect.csv table
MaxEffectRows == 404
\* most cores of the machine a unit runs on (mp.cpu_count())
MaxCores == 4
\* most data lines of a table file given to a reader
MaxFileLines == 2
\* longest table a single-valued lookup is built from
MaxLookupRows == 3
\* most rows or records a Lua writer starts from
MaxLuaRows == 3

-----------------------------------------------------------------------------
(* Generic helpers: text fields and Python dicts *)

Num(k) == [ok |-> TRUE, n |-> k, d |-> 1]
Rat(a, b) == [ok |-> TRUE, n |-> a, d |-> b]
NaN == [ok |-> FALSE, n |-> 0, d |-> 1]

\* a dict is a function whose DOMAIN is its key set
EmptyDict == << >>
Put(f, k, v) == [x \in (DOMAIN f) \cup {k} |-> IF x = k THEN v ELSE f[x]]

RECURSIVE SetSum(_)
SetSum(S) == IF S = {} THEN 0
             ELSE LET x == CHOOSE y \in S : TRUE IN x + SetSum(S \ {x})

\* the keys of S in ascending order (sorted(d.keys()))
RECURSIVE SortedSeq(_)
SortedSeq(S) == IF S = {} THEN << >>
                ELSE LET m == CHOOSE x \in S : \A y \in S : x <= y
                     IN <<m>> \o SortedSeq(S \ {m})

\* round-half-even of the rational a/b (b > 0) to an integer
RoundHalfEven(a, b) ==
    LET q == a \div b
        r == a - q * b
    IN  IF 2 * r < b THEN q
        ELSE IF 2 * r > b THEN q + 1
        ELSE IF q % 2 = 0 THEN q ELSE q + 1

-----------------------------------------------------------------------------
(* SpellRPPM.py *)

RPPM_HASTE_ID == 1
RPPM_CRIT_ID == 2
RPPM_CLASS_ID == 3
RPPM_SPEC_ID == 4
RPPM_RACE_ID == 5

\* digits kept by round(value, 6)
PPM_PRECISION == 6
\* highest class id tried by range(13, 0, -1)
MAX_CLASS_ID == 13

PpmUnit == 10 ^ PPM_PRECISION

computeClass_NoEvoker(classmask) ==
    IF classmask \in 1..(MAX_CLASS_ID - 1) THEN 2 ^ (classmask - 1) ELSE 0

\* class id -> class bit, 0 for an unknown id
computeClass(classmask) ==
    IF classmask \in 1..MAX_CLASS_ID THEN 2 ^ (classmask - 1) ELSE 0

\* round(float(row['ppm']), 6), in units of 10^-6
RoundPPM(f) == RoundHalfEven(f.n * PpmUnit, f.d)

modified_ppm_NoBase(base_value, coefficient) ==
    RoundHalfEven(base_value * coefficient.n, coefficient.d)

\* round(base_value * (1.0 + coefficient), 6)
modified_ppm(base_value, coefficient) ==
    RoundHalfEven(base_value * (coefficient.d + coefficient.n), coefficient.d)


\* a modifier-set entry: the flag True, or a dict sub_id -> value
BoolEntry == [isBool |-> TRUE, tab |-> EmptyDict]
DictEntry(t) == [isBool |-> FALSE, tab |-> t]

SetFlag_AlwaysHaste(m, parent_id, mod_type) ==
    LET mp == IF parent_id \in DOMAIN m THEN m[parent_id] ELSE EmptyDict
    IN  Put(m, parent_id, Put(mp, RPPM_HASTE_ID, BoolEntry))

\* mod_ppm[parent_id][mod_type] = True   (defaultdict creates mod_ppm[parent_id])
SetFlag(m, parent_id, mod_type) ==
    LET mp == IF parent_id \in DOMAIN m THEN m[parent_id] ELSE EmptyDict
    IN  Put(m, parent_id, Put(mp, mod_type, BoolEntry))

\* mod_ppm[parent_id][mod_type][sub_id] = value   (defaultdict creates the levels)
SetSub(m, parent_id, mod_type, sub_id, value) ==
    LET mp == IF parent_id \in DOMAIN m THEN m[parent_id] ELSE EmptyDict
        t  == IF mod_type \in DOMAIN mp THEN mp[mod_type].tab ELSE EmptyDict
    IN  Put(m, parent_id, Put(mp, mod_type, DictEntry(Put(t, sub_id, value))))

\* loadBasePPM: the loop over SpellProcsPerMinute.csv from row i on
RECURSIVE loadBasePPM(_, _, _)
loadBasePPM(rows, i, base) ==
    IF i > Len(rows) THEN [raised |-> FALSE, base |-> base]
    ELSE IF ~(rows[i].id.ok /\ rows[i].ppm.ok) THEN [raised |-> TRUE, base |-> base]
    ELSE IF rows[i].ppm.n > 0
         THEN loadBasePPM(rows, i + 1, Put(base, rows[i].id.n, RoundPPM(rows[i].ppm)))
         ELSE loadBasePPM(rows, i + 1, base)

\* the class loop of processClassModifiers, from class id i down to 1
RECURSIVE classLoop(_, _, _, _, _, _, _)
classLoop(i, racemask, m, rec, parent_id, mod_type, value) ==
    IF i = 0 THEN [raised |-> FALSE, m |-> m, rec |-> rec]
    ELSE LET class_bit == computeClass(i)
         IN  IF class_bit # 0 /\ racemask - class_bit >= 0
             THEN IF value > 0
                  THEN classLoop(i - 1, racemask - class_bit,
                                 SetSub(m, parent_id, mod_type, i, value),
                                 rec \cup {i}, parent_id, mod_type, value)
                  ELSE classLoop(i - 1, racemask - class_bit, m, rec,
                                 parent_id, mod_type, value)
             ELSE classLoop(i - 1, racemask, m, rec, parent_id, mod_type, value)

processClassModifiers(row, m, parent_id, base, coefficient) ==
    IF ~row.id_chr_spec.ok THEN [raised |-> TRUE, m |-> m, rec |-> {}]
    ELSE classLoop(MAX_CLASS_ID, row.id_chr_spec.n, m, {}, parent_id, row.unk_1.n,
                   modified_ppm(base[parent_id], coefficient))

processSpecRaceModifiers_NoGuard(row, m, parent_id, base, coefficient) ==
    IF ~row.id_chr_spec.ok THEN [raised |-> TRUE, m |-> m, rec |-> {}]
    ELSE [raised |-> FALSE,
          m |-> SetSub(m, parent_id, row.unk_1.n, row.id_chr_spec.n,
                       modified_ppm(base[parent_id], coefficient)),
          rec |-> {row.id_chr_spec.n}]

processSpecRaceModifiers(row, m, parent_id, base, coefficient) ==
    IF ~row.id_chr_spec.ok THEN [raised |-> TRUE, m |-> m, rec |-> {}]
    ELSE LET value == modified_ppm(base[parent_id], coefficient)
         IN  IF value > 0
             THEN [raised |-> FALSE,
                   m |-> SetSub(m, parent_id, row.unk_1.n, row.id_chr_spec.n, value),
                   rec |-> {row.id_chr_spec.n}]
             ELSE [raised |-> FALSE, m |-> m, rec |-> {}]

SkipModRow_ZeroKept(row, base) ==
    row.id_parent.n \notin DOMAIN base

\* `continue` of loadModPPM: coefficient == 0 or parent_id not in base_ppm
SkipModRow(row, base) ==
    row.coefficient.n = 0 \/ row.id_parent.n \notin DOMAIN base

\* the body of loadModPPM's loop for one row
loadModPPMRow(row, m, base) ==
    IF ~(row.id_parent.ok /\ row.unk_1.ok /\ row.coefficient.ok)
    THEN [raised |-> TRUE, m |-> m, rec |-> {}]
    ELSE IF SkipModRow(row, base)
    THEN [raised |-> FALSE, m |-> m, rec |-> {}]
    ELSE IF row.unk_1.n \in {RPPM_HASTE_ID, RPPM_CRIT_ID}
    THEN [raised |-> FALSE, m |-> SetFlag(m, row.id_parent.n, row.unk_1.n), rec |-> {}]
    ELSE IF row.unk_1.n = RPPM_CLASS_ID
    THEN processClassModifiers(row, m, row.id_parent.n, base, row.coefficient)
    ELSE IF row.unk_1.n \in {RPPM_SPEC_ID, RPPM_RACE_ID}
    THEN processSpecRaceModifiers(row, m, row.id_parent.n, base, row.coefficient)
    ELSE [raised |-> FALSE, m |-> m, rec |-> {}]

\* loadPPMID: the loop over SpellAuraOptions.csv from row i on
RECURSIVE loadPPMID(_, _, _)
loadPPMID(rows, i, ids) ==
    IF i > Len(rows) THEN [raised |-> FALSE, ids |-> ids]
    ELSE IF ~rows[i].id_ppm.ok THEN [raised |-> TRUE, ids |-> ids]
    ELSE IF rows[i].id_ppm.n = 0 THEN loadPPMID(rows, i + 1, ids)
    ELSE IF ~rows[i].id_parent.ok THEN [raised |-> TRUE, ids |-> ids]
    ELSE loadPPMID(rows, i + 1, Put(ids, rows[i].id_parent.n, rows[i].id_ppm.n))

\* the text written for one modifier: `true`, or the sorted sub-table
LuaModifier(mod_id, mod_data) ==
    IF mod_data.isBool
    THEN [mod_id |-> mod_id, text |-> "true", subs |-> << >>]
    ELSE [mod_id |-> mod_id, text |-> "table",
          subs |-> LET ks == SortedSeq(DOMAIN mod_data.tab)
                   IN  [j \in 1..Len(ks) |-> <<ks[j], mod_data.tab[ks[j]]>>]]

\* the entry written for item_id (ppm_id is known to base_ppm)
LuaEntry(item_id, ppm_id, base, m) ==
    [item_id |-> item_id,
     base    |-> base[ppm_id],
     mods    |-> IF ppm_id \in DOMAIN m
                 THEN LET ks == SortedSeq(DOMAIN m[ppm_id])
                      IN  [j \in 1..Len(ks) |-> LuaModifier(ks[j], m[ppm_id][ks[j]])]
                 ELSE << >>]

\* writeLuaOutput: one entry per sorted item id whose ppm id has a base value
writeLuaOutput(ids, base, m) ==
    LET items == SortedSeq({k \in DOMAIN ids : ids[k] \in DOMAIN base})
    IN  [j \in 1..Len(items) |-> LuaEntry(items[j], ids[items[j]], base, m)]

(* Inputs of the SpellRPPM unit *)

PpmRow(id, ppm) == [id |-> id, ppm |-> ppm]
PpmTables ==
    { <<PpmRow(Num(1), Rat(5, 2)), PpmRow(Num(2), Rat(34, 10000000)),
        PpmRow(Num(3), Num(0))>>,
      <<PpmRow(Num(1), Rat(5, 2)), PpmRow(Num(1), Num(1)), PpmRow(Num(2), Num(-1))>>,
      <<PpmRow(Num(1), Rat(5, 2)), PpmRow(NaN, Num(1))>>,
      <<PpmRow(Num(1), NaN)>> }

ModRow(p, k, c, s) == [id_parent |-> p, unk_1 |-> k, coefficient |-> c, id_chr_spec |-> s]

\* class masks: no bit, known bits, every known bit, bits above the known ones
ClassMasks == {0, 5, 4097, 8191, 8192, 8197, -1}
\* coefficients: 0.2, -1.0 (scaled value zero), -2.0 (scaled value negative)
Coefficients == {Rat(1, 5), Num(-1), Num(-2)}

ModRowSet ==
       \* haste, crit and an unknown kind
       {ModRow(Num(p), Num(k), c, Num(0)) :
            p \in {1, 2, 3}, k \in {RPPM_HASTE_ID, RPPM_CRIT_ID}, c \in {Rat(1, 5)}}
  \cup {ModRow(Num(1), Num(6), Rat(1, 5), Num(5))}
       \* class rows
  \cup {ModRow(Num(p), Num(RPPM_CLASS_ID), Rat(1, 5), Num(s)) :
            p \in {1, 2}, s \in ClassMasks}
  \cup {ModRow(Num(1), Num(RPPM_CLASS_ID), c, Num(5)) : c \in {Num(-1), Num(-2)}}
       \* spec and race rows
  \cup {ModRow(Num(p), Num(k), Rat(1, 5), Num(s)) :
            p \in {1, 2}, k \in {RPPM_SPEC_ID, RPPM_RACE_ID}, s \in {5, 62}}
  \cup {ModRow(Num(1), Num(RPPM_SPEC_ID), c, Num(62)) : c \in {Num(-1), Num(-2)}}
       \* skipped rows: zero coefficient, unknown parent
  \cup {ModRow(Num(1), Num(k), Num(0), s) :
            k \in {RPPM_HASTE_ID, RPPM_CLASS_ID}, s \in {Num(5), NaN}}
  \cup {ModRow(Num(3), Num(RPPM_CLASS_ID), Rat(1, 5), s) : s \in {Num(5), NaN}}
       \* rows with a field that does not convert
  \cup {ModRow(NaN, Num(RPPM_HASTE_ID), Rat(1, 5), Num(0)),
        ModRow(Num(1), NaN, Rat(1, 5), Num(0)),
        ModRow(Num(1), Num(RPPM_HASTE_ID), NaN, Num(0)),
        ModRow(Num(1), Num(RPPM_CLASS_ID), Rat(1, 5), NaN),
        ModRow(Num(1), Num(RPPM_RACE_ID), Rat(1, 5), NaN)}

AuraRow(p, i) == [id_parent |-> p, id_ppm |-> i]
AuraTables ==
    { <<AuraRow(Num(10), Num(1)), AuraRow(Num(11), Num(2)), AuraRow(Num(12), Num(3)),
        AuraRow(Num(13), Num(0))>>,
      <<AuraRow(Num(11), Num(1)), AuraRow(Num(10), Num(2)), AuraRow(Num(10), Num(1)),
        AuraRow(NaN, Num(0))>>,
      <<AuraRow(Num(10), Num(1)), AuraRow(NaN, Num(2))>>,
      <<AuraRow(Num(10), NaN)>> }

(* main() of SpellRPPM.py *)

InitRPPM ==
    /\ pc = "loadBasePPM"
    /\ base_ppm = EmptyDict
    /\ modRows = << >>
    /\ mod_ppm = EmptyDict
    /\ recorded = {}
    /\ ppm_ids = EmptyDict
    /\ luaOut = << >>
    /\ IdleRange
    /\ IdleSoul
    /\ IdleAura
    /\ IdleAzerite
    /\ IdleReader
    /\ IdleLookup
    /\ IdleTree
    /\ IdleLua
    /\ IdleBatch
    /\ IdlePool
    /\ IdleTick
    /\ IdleOut
    /\ IdleFilter

\* base_ppm = loadBasePPM(); an exception ends main() with sys.exit(1)
LoadBasePPM ==
    /\ pc = "loadBasePPM"
    /\ \E t \in PpmTables :
          LET r == loadBasePPM(t, 1, EmptyDict)
          IN  IF r.raised
              THEN pc' = "exit1" /\ base_ppm' = base_ppm
              ELSE pc' = "loadModPPM" /\ base_ppm' = r.base
    /\ UNCHANGED <<modRows, mod_ppm, recorded, ppm_ids, luaOut>>
    /\ UNCHANGED notRPPM

\* one iteration of `for row in reader` in loadModPPM
LoadModRow ==
    /\ pc = "loadModPPM"
    /\ Len(modRows) < MaxModRows
    /\ \E row \in ModRowSet :
          LET r == loadModPPMRow(row, mod_ppm, base_ppm)
          IN  /\ modRows' = Append(modRows, row)
              /\ mod_ppm' = r.m
              /\ recorded' = r.rec
              /\ pc' = IF r.raised THEN "exit1" ELSE "loadModPPM"
    /\ UNCHANGED <<base_ppm, ppm_ids, luaOut>>
    /\ UNCHANGED notRPPM

\* the reader is exhausted: loadModPPM returns mod_ppm
LoadModEnd ==
    /\ pc = "loadModPPM"
    /\ pc' = "loadPPMID"
    /\ UNCHANGED <<varsRPPM, notRPPM>>

\* ppm_ids = loadPPMID()
LoadPPMID ==
    /\ pc = "loadPPMID"
    /\ \E t \in AuraTables :
          LET r == loadPPMID(t, 1, EmptyDict)
          IN  IF r.raised
              THEN pc' = "exit1" /\ ppm_ids' = ppm_ids
              ELSE pc' = "writeLuaOutput" /\ ppm_ids' = r.ids
    /\ UNCHANGED <<base_ppm, modRows, mod_ppm, recorded, luaOut>>
    /\ UNCHANGED notRPPM

\* writeLuaOutput(ppm_ids, base_ppm, mod_ppm)
WriteLuaOutput ==
    /\ pc = "writeLuaOutput"
    /\ luaOut' = writeLuaOutput(ppm_ids, base_ppm, mod_ppm)
    /\ pc' = "done"
    /\ UNCHANGED <<base_ppm, modRows, mod_ppm, recorded, ppm_ids>>
    /\ UNCHANGED notRPPM

NextRPPM ==
    \/ LoadBasePPM
    \/ LoadModRow
    \/ LoadModEnd
    \/ LoadPPMID
    \/ WriteLuaOutput

SpecRPPM == InitRPPM /\ [][NextRPPM]_vars


-----------------------------------------------------------------------------
(* Properties of the SpellRPPM unit *)

\* the modifier row processed last
HasLastRow == Len(modRows) > 0
LastRow == modRows[Len(modRows)]

\* int(id_parent), int(unk_1) and float(coefficient) succeed
ConvertsHead(row) == row.id_parent.ok /\ row.unk_1.ok /\ row.coefficient.ok

\* the row passes the `continue` test of loadModPPM
NotSkipped(row) ==
    /\ ConvertsHead(row)
    /\ row.coefficient.n # 0
    /\ row.id_parent.n \in DOMAIN base_ppm

\* the row is handed to processClassModifiers and its mask converts
ClassRow(row) ==
    NotSkipped(row) /\ row.unk_1.n = RPPM_CLASS_ID /\ row.id_chr_spec.ok

\* the row is a class, spec or race row whose category converts
NumericRow(row) ==
    /\ NotSkipped(row)
    /\ row.unk_1.n \in {RPPM_CLASS_ID, RPPM_SPEC_ID, RPPM_RACE_ID}
    /\ row.id_chr_spec.ok

\* v is base * (1 + coefficient) rounded to the nearest unit of 10^-6
IsScaledValue(v, row) ==
    LET exact == base_ppm[row.id_parent.n] * (row.coefficient.d + row.coefficient.n)
        got   == v * row.coefficient.d
    IN  /\ 2 * (got - exact) <= row.coefficient.d
        /\ 2 * (exact - got) <= row.coefficient.d

\* the rounded scaled value of the row is positive
ScaledPositive(row) ==
    2 * base_ppm[row.id_parent.n] * (row.coefficient.d + row.coefficient.n)
        > row.coefficient.d

BitSet(mask, i) == (mask \div (2 ^ (i - 1))) % 2 = 1
BitSum(ids) == SetSum({2 ^ (i - 1) : i \in ids})
KnownBits == 2 ^ MAX_CLASS_ID - 1

\* the value stored at mod_ppm[p][k][i], 0 when there is none
StoredValue(p, k, i) ==
    IF /\ p \in DOMAIN mod_ppm
       /\ k \in DOMAIN mod_ppm[p]
       /\ i \in DOMAIN mod_ppm[p][k].tab
    THEN mod_ppm[p][k].tab[i] ELSE 0

\* C1 as stated: for every class row with a non-negative mask m, the bit
\* values of the class ids recorded for the row sum to m.
C1_RoundTripAnyMask ==
    (HasLastRow /\ ClassRow(LastRow) /\ LastRow.id_chr_spec.n >= 0)
        => BitSum(recorded) = LastRow.id_chr_spec.n

\* C1 amended: for every class row whose mask m holds only known class bits
\* (0 <= m <= 8191) and whose scaled value is positive, the bit values of the
\* class ids recorded for the row sum to m.
C1_RoundTripKnownBits ==
    (/\ HasLastRow /\ ClassRow(LastRow)
     /\ LastRow.id_chr_spec.n >= 0 /\ LastRow.id_chr_spec.n <= KnownBits
     /\ ScaledPositive(LastRow))
        => BitSum(recorded) = LastRow.id_chr_spec.n

C1_Witness ==
    /\ HasLastRow /\ ClassRow(LastRow) /\ ScaledPositive(LastRow)
    /\ LastRow.id_chr_spec.n = 4097
    /\ recorded = {1, 13}

\* C2: for a class row (non-negative mask, positive scaled value) class id i is
\* recorded if and only if bit 2^(i-1) is set in the mask; bits above the 13
\* known ones record nothing.
C2_RecordedIffBitSet ==
    (/\ HasLastRow /\ ClassRow(LastRow)
     /\ LastRow.id_chr_spec.n >= 0
     /\ ScaledPositive(LastRow))
        => recorded = {i \in 1..MAX_CLASS_ID : BitSet(LastRow.id_chr_spec.n, i)}

\* C3: every value a class, spec or race row records is
\* round(base * (1 + coefficient), 6); base 2.5 with coefficient 0.2 stores 3.0.
C3_ScaledValueStored ==
    (HasLastRow /\ NumericRow(LastRow))
        => \A i \in recorded :
              LET v == StoredValue(LastRow.id_parent.n, LastRow.unk_1.n, i)
              IN  /\ IsScaledValue(v, LastRow)
                  /\ (/\ base_ppm[LastRow.id_parent.n] = 2500000
                      /\ LastRow.coefficient = Rat(1, 5)) => v = 3000000

C3_Witness ==
    /\ HasLastRow /\ NumericRow(LastRow)
    /\ LastRow.unk_1.n = RPPM_SPEC_ID
    /\ base_ppm[LastRow.id_parent.n] = 2500000
    /\ LastRow.coefficient = Rat(1, 5)
    /\ recorded = {62}
    /\ StoredValue(LastRow.id_parent.n, RPPM_SPEC_ID, 62) = 3000000

\* C4: every value stored in a class, spec or race table is strictly positive,
\* and a row whose scaled value is zero or negative records no category.
C4_StoredValuesPositive ==
    /\ \A p \in DOMAIN mod_ppm : \A k \in DOMAIN mod_ppm[p] :
          \A i \in DOMAIN mod_ppm[p][k].tab : mod_ppm[p][k].tab[i] > 0
    /\ (HasLastRow /\ NumericRow(LastRow) /\ ~ScaledPositive(LastRow))
          => recorded = {}

C4_Witness ==
    /\ Len(modRows) = 2
    /\ NumericRow(modRows[1]) /\ NumericRow(modRows[2])
    /\ modRows[1].id_parent = modRows[2].id_parent
    /\ modRows[1].unk_1 = modRows[2].unk_1
    /\ modRows[1].id_chr_spec = modRows[2].id_chr_spec
    /\ ScaledPositive(modRows[1]) /\ ~ScaledPositive(modRows[2])
    /\ modRows[2].unk_1.n = RPPM_SPEC_ID
    /\ recorded = {}
    /\ StoredValue(modRows[2].id_parent.n, RPPM_SPEC_ID, modRows[2].id_chr_spec.n) > 0

FlagRowSeen(p, k) ==
    \E j \in 1..Len(modRows) :
        /\ NotSkipped(modRows[j])
        /\ modRows[j].id_parent.n = p
        /\ modRows[j].unk_1.n = k

ParentIds ==
    (DOMAIN mod_ppm) \cup
    {modRows[j].id_parent.n : j \in {i \in 1..Len(modRows) : modRows[i].id_parent.ok}}

\* C6: once loadModPPM has returned, the haste or crit entry of a parent is the
\* flag true exactly when the table holds such a row; the entry has no numeric
\* payload, in mod_ppm and in the text written.
C6_FlagIffRow ==
    /\ (pc \in {"loadPPMID", "writeLuaOutput", "done"}) =>
          \A p \in ParentIds : \A k \in {RPPM_HASTE_ID, RPPM_CRIT_ID} :
              (/\ p \in DOMAIN mod_ppm
               /\ k \in DOMAIN mod_ppm[p]
               /\ mod_ppm[p][k].isBool
               /\ mod_ppm[p][k].tab = EmptyDict) <=> FlagRowSeen(p, k)
    /\ \A e \in 1..Len(luaOut) : \A j \in 1..Len(luaOut[e].mods) :
          (luaOut[e].mods[j].mod_id \in {RPPM_HASTE_ID, RPPM_CRIT_ID})
              => (luaOut[e].mods[j].text = "true" /\ luaOut[e].mods[j].subs = << >>)

C6_Witness ==
    /\ pc = "done"
    /\ FlagRowSeen(1, RPPM_CRIT_ID)
    /\ ~FlagRowSeen(1, RPPM_HASTE_ID)
    /\ \E e \in 1..Len(luaOut) : \E j \in 1..Len(luaOut[e].mods) :
          luaOut[e].mods[j].mod_id = RPPM_CRIT_ID /\ luaOut[e].mods[j].text = "true"

\* the conversion of a field of the row fails while the row is processed
RowConversionFails(row) ==
    \/ ~ConvertsHead(row)
    \/ /\ NotSkipped(row)
       /\ row.unk_1.n \in {RPPM_CLASS_ID, RPPM_SPEC_ID, RPPM_RACE_ID}
       /\ ~row.id_chr_spec.ok

\* C7: a conversion error on one modifier row skips that row only: the unit
\* does not end there, later rows are processed and the output is written.
C7_RowErrorDoesNotAbort ==
    (HasLastRow /\ RowConversionFails(LastRow)) => pc # "exit1"


-----------------------------------------------------------------------------
(* ItemRange.py and SpellMeleeRange.py: the filter on SpellRange.csv *)

\* ItemRange.py
MIN_VALID_RANGE == 5
MAX_VALID_RANGE == 100
RANGE_TYPE_MELEE == 1
\* SpellMeleeRange.py
MELEE_FLAG == 1
MAX_RANGE_THRESHOLD == 100

\* comparisons of a converted field (the rational n/d, d > 0) with an integer
FieldLe(k, f) == k * f.d <= f.n
FieldGe(k, f) == k * f.d >= f.n
FieldLt(k, f) == k * f.d < f.n

\* int(x) of a float: truncation toward zero
IntOf(f) == IF f.n >= 0 THEN f.n \div f.d ELSE -((-f.n) \div f.d)

RangePairValid_Exclusive(min_range, max_range) ==
    /\ min_range.n = 0
    /\ FieldLt(MIN_VALID_RANGE, max_range)
    /\ FieldGe(MAX_VALID_RANGE, max_range)

\* ItemRange: min_range == 0 and MIN_VALID_RANGE <= max_range <= MAX_VALID_RANGE
RangePairValid(min_range, max_range) ==
    /\ min_range.n = 0
    /\ FieldLe(MIN_VALID_RANGE, max_range)
    /\ FieldGe(MAX_VALID_RANGE, max_range)

\* SpellMeleeRange: 0 < max_range <= MAX_RANGE_THRESHOLD
MeleeRangeValid(max_range) ==
    FieldLt(0, max_range) /\ FieldGe(MAX_RANGE_THRESHOLD, max_range)

\* RangeData(max_range, flag)
RangeData(max_range, flag) == [max_range |-> max_range, flag |-> flag]

\* ItemRange.process_spell_ranges: the loop body for one row.  The hostile pair
\* is stored before the friendly pair is converted, so an exception of the
\* friendly part leaves the hostile entry in place.
process_spell_ranges(row, r) ==
    IF ~(row.min_range_1.ok /\ row.max_range_1.ok)
    THEN [r |-> r, acc |-> {}]
    ELSE LET hostile == RangePairValid(row.min_range_1, row.max_range_1)
         IN  IF hostile /\ ~row.flag.ok
             THEN [r |-> r, acc |-> {}]
             ELSE LET r1 == IF hostile
                            THEN Put(r, row.id, RangeData(row.max_range_1, row.flag.n))
                            ELSE r
                      a1 == IF hostile THEN {1} ELSE {}
                  IN  IF ~(row.min_range_2.ok /\ row.max_range_2.ok)
                      THEN [r |-> r1, acc |-> a1]
                      ELSE IF RangePairValid(row.min_range_2, row.max_range_2)
                      THEN IF ~row.flag.ok
                           THEN [r |-> r1, acc |-> a1]
                           ELSE [r |-> Put(r1, row.id,
                                           RangeData(row.max_range_2, row.flag.n)),
                                 acc |-> a1 \cup {2}]
                      ELSE [r |-> r1, acc |-> a1]

\* SpellMeleeRange.process_spell_range_data: the loop body for one row
process_spell_range_data(row, r) ==
    IF ~(row.min_range_1.ok /\ row.max_range_1.ok /\ row.flag.ok)
    THEN [r |-> r, acc |-> {}]
    ELSE IF MeleeRangeValid(row.max_range_1)
    THEN [r |-> Put(r, row.id, [min |-> IntOf(row.min_range_1),
                                max |-> IntOf(row.max_range_1),
                                flag |-> row.flag.n]),
          acc |-> {1}]
    ELSE [r |-> r, acc |-> {}]

\* the rows at the indexes S, in file order
RowsAt(rows, S) ==
    LET ix == SortedSeq(S) IN [j \in 1..Len(ix) |-> rows[ix[j]]]

\* the first index of rows whose row has parent id p
FirstOfParent(rows, p) ==
    CHOOSE i \in 1..Len(rows) :
        /\ rows[i].id_parent.n = p
        /\ \A j \in 1..(i - 1) : rows[j].id_parent.n # p

\* rows[0] of spell_groups[p]
GroupRow(rows, p) == rows[FirstOfParent(rows, p)]

\* SpellMeleeRange.process_spell_misc_data: the rows whose id_range is a key of
\* valid_ranges and whose id_parent converts, grouped by parent id; the first
\* row of each group, sorted by parent id
process_spell_misc_data(rows, valid_ranges) ==
    LET kept    == RowsAt(rows, {i \in 1..Len(rows) :
                                   /\ rows[i].id_range \in DOMAIN valid_ranges
                                   /\ rows[i].id_parent.ok})
        parents == SortedSeq({kept[i].id_parent.n : i \in 1..Len(kept)})
    IN  [j \in 1..Len(parents) |-> GroupRow(kept, parents[j])]

\* SpellMeleeRange.write_lua_file: one entry line per valid row, in order
write_lua_file(rows, r) ==
    [j \in 1..Len(rows) |->
        [spell    |-> rows[j].id_parent.n,
         is_melee |-> IF r[rows[j].id_range].flag = MELEE_FLAG THEN "true" ELSE "false",
         min      |-> r[rows[j].id_range].min,
         max      |-> r[rows[j].id_range].max]]

(* Inputs *)

RangeRow(id, min1, max1, min2, max2, flag) ==
    [id |-> id, min_range_1 |-> min1, max_range_1 |-> max1,
     min_range_2 |-> min2, max_range_2 |-> max2, flag |-> flag]

RangeRowSet ==
       \* the boundaries of the hostile pair, no friendly range
       {RangeRow(id, Num(0), m, Num(0), Num(0), Num(1)) :
            id \in {1, 2},
            m \in {Rat(4999, 1000), Num(5), Num(100), Rat(100001, 1000)}}
       \* no hostile range, a friendly range
  \cup {RangeRow(1, Num(0), m, Num(0), Num(30), Num(2)) : m \in {Num(0), Rat(4999, 1000)}}
       \* a minimum range above zero
  \cup {RangeRow(2, Num(5), Num(30), Num(0), Num(0), Num(1)),
        RangeRow(2, Rat(5, 2), Rat(9, 2), Num(0), Num(0), Num(2)),
        RangeRow(2, Num(0), Num(-1), Num(0), Num(0), Num(1))}
       \* fields that do not convert
  \cup {RangeRow(3, Num(0), Num(30), Num(0), Num(0), NaN),
        RangeRow(3, Num(0), Rat(4999, 1000), Num(0), Num(0), NaN),
        RangeRow(3, NaN, Num(30), Num(0), Num(30), Num(1)),
        RangeRow(3, Num(0), NaN, Num(0), Num(30), Num(1)),
        RangeRow(3, Num(0), Num(30), NaN, Num(30), Num(1)),
        RangeRow(3, Num(0), Num(0), Num(0), Num(30), NaN)}

MiscRow(p, r) == [id_parent |-> p, id_range |-> r]

\* SpellMisc.csv tables; every table is in the set with its rows in each order
MiscTables ==
    LET a == MiscRow(Num(7), 1)
        b == MiscRow(Num(7), 2)
        c == MiscRow(Num(5), 1)
        d == MiscRow(Num(6), 3)
        e == MiscRow(NaN, 1)
    IN  { <<a, b>>, <<b, a>>,
          <<a, c>>, <<c, a>>,
          <<d, c, e>>, <<c, e, d>>, <<e, d, c>>, <<d, e, c>>, <<c, d, e>>, <<e, c, d>> }

\* the two tables hold the same rows, each as often
SameRows(t, u) ==
    /\ Len(t) = Len(u)
    /\ \A x \in {t[i] : i \in 1..Len(t)} \cup {u[i] : i \in 1..Len(u)} :
          Cardinality({i \in 1..Len(t) : t[i] = x})
              = Cardinality({i \in 1..Len(u) : u[i] = x})

(* main() of ItemRange.py (up to process_spell_ranges) and of SpellMeleeRange.py *)

InitRange ==
    /\ pc \in {"ItemRange:process_spell_ranges", "SpellMeleeRange:process_spell_range_data"}
    /\ IdleRange
    /\ IdleRPPM
    /\ IdleSoul
    /\ IdleAura
    /\ IdleAzerite
    /\ IdleReader
    /\ IdleLookup
    /\ IdleTree
    /\ IdleLua
    /\ IdleBatch
    /\ IdlePool
    /\ IdleTick
    /\ IdleOut
    /\ IdleFilter

\* ItemRange: one iteration of `for row in range_data`
ItemRangeRow ==
    /\ pc = "ItemRange:process_spell_ranges"
    /\ Len(rangeRows) < MaxRangeRows
    /\ \E row \in RangeRowSet :
          LET res == process_spell_ranges(row, ranges)
          IN  /\ rangeRows' = Append(rangeRows, row)
              /\ ranges' = res.r
              /\ accepted' = res.acc
    /\ UNCHANGED <<pc, misc_data, valid_rows, luaFile, notRange>>

\* ItemRange: process_spell_ranges returns
ItemRangeEnd ==
    /\ pc = "ItemRange:process_spell_ranges"
    /\ pc' = "ItemRange:process_item_ranges"
    /\ UNCHANGED <<varsRange, notRange>>

\* SpellMeleeRange: one iteration of `for row in range_data`
MeleeRangeRow ==
    /\ pc = "SpellMeleeRange:process_spell_range_data"
    /\ Len(rangeRows) < MaxRangeRows
    /\ \E row \in RangeRowSet :
          LET res == process_spell_range_data(row, ranges)
          IN  /\ rangeRows' = Append(rangeRows, row)
              /\ ranges' = res.r
              /\ accepted' = res.acc
    /\ UNCHANGED <<pc, misc_data, valid_rows, luaFile, notRange>>

\* SpellMeleeRange: process_spell_range_data returns
MeleeRangeEnd ==
    /\ pc = "SpellMeleeRange:process_spell_range_data"
    /\ pc' = "SpellMeleeRange:process_spell_misc_data"
    /\ UNCHANGED <<varsRange, notRange>>

\* SpellMeleeRange: valid_rows = process_spell_misc_data(misc_data, ranges), for
\* a table of SpellMisc.csv given in two orders of its rows
MeleeMisc ==
    /\ pc = "SpellMeleeRange:process_spell_misc_data"
    /\ \E t \in MiscTables : \E u \in {x \in MiscTables : SameRows(t, x)} :
          /\ misc_data' = <<t, u>>
          /\ valid_rows' = <<process_spell_misc_data(t, ranges),
                             process_spell_misc_data(u, ranges)>>
    /\ pc' = "SpellMeleeRange:write_lua_file"
    /\ UNCHANGED <<rangeRows, ranges, accepted, luaFile, notRange>>

\* SpellMeleeRange: write_lua_file(output_file, valid_rows, ranges)
MeleeWrite ==
    /\ pc = "SpellMeleeRange:write_lua_file"
    /\ luaFile' = <<write_lua_file(valid_rows[1], ranges),
                    write_lua_file(valid_rows[2], ranges)>>
    /\ pc' = "SpellMeleeRange:done"
    /\ UNCHANGED <<rangeRows, ranges, accepted, misc_data, valid_rows, notRange>>

NextRange ==
    \/ ItemRangeRow
    \/ ItemRangeEnd
    \/ MeleeRangeRow
    \/ MeleeRangeEnd
    \/ MeleeMisc
    \/ MeleeWrite

SpecRange == InitRange /\ [][NextRange]_vars


-----------------------------------------------------------------------------
(* Properties of the range filters *)

InItemRange == pc \in {"ItemRange:process_spell_ranges", "ItemRange:process_item_ranges"}
InMeleeRange ==
    pc \in {"SpellMeleeRange:process_spell_range_data",
            "SpellMeleeRange:process_spell_misc_data",
            "SpellMeleeRange:write_lua_file", "SpellMeleeRange:done"}

\* the row of SpellRange.csv processed last
HasLastRange == Len(rangeRows) > 0
LastRange == rangeRows[Len(rangeRows)]

RangeRowConverts(row) ==
    /\ row.min_range_1.ok /\ row.max_range_1.ok
    /\ row.min_range_2.ok /\ row.max_range_2.ok
    /\ row.flag.ok

\* 5.0 <= f <= 100.0
InFiveToHundred(f) == 5 * f.d <= f.n /\ f.n <= 100 * f.d

\* C8 as stated: in every unit a row with min_range = 0 is accepted when
\* 5.0 <= max_range <= 100.0 and rejected otherwise (rows whose fields convert
\* and whose friendly pair does not qualify).
C8_FiveToHundredEveryUnit ==
    (/\ HasLastRange /\ RangeRowConverts(LastRange)
     /\ LastRange.min_range_1.n = 0
     /\ ~(LastRange.min_range_2.n = 0 /\ InFiveToHundred(LastRange.max_range_2)))
        => ((1 \in accepted) <=> InFiveToHundred(LastRange.max_range_1))

\* C8 amended: ItemRange records a pair (hostile 1, friendly 2) of a row whose
\* fields convert exactly when its min_range = 0 and 5.0 <= max_range <= 100.0;
\* SpellMeleeRange records such a row exactly when 0 < max_range_1 <= 100.
C8_BoundsPerUnit ==
    /\ (InItemRange /\ HasLastRange /\ RangeRowConverts(LastRange)) =>
          /\ (1 \in accepted) <=> (/\ LastRange.min_range_1.n = 0
                                   /\ InFiveToHundred(LastRange.max_range_1))
          /\ (2 \in accepted) <=> (/\ LastRange.min_range_2.n = 0
                                   /\ InFiveToHundred(LastRange.max_range_2))
          /\ (accepted # {}) => LastRange.id \in DOMAIN ranges
    /\ (InMeleeRange /\ HasLastRange /\ RangeRowConverts(LastRange)) =>
          /\ (1 \in accepted) <=> (/\ LastRange.max_range_1.n > 0
                                   /\ LastRange.max_range_1.n
                                          <= 100 * LastRange.max_range_1.d)
          /\ (accepted # {}) => LastRange.id \in DOMAIN ranges

C8_Witness ==
    /\ InItemRange
    /\ Len(rangeRows) = 2
    /\ rangeRows[1].min_range_1 = Num(0) /\ rangeRows[1].max_range_1 = Num(100)
    /\ rangeRows[2].min_range_1 = Num(0) /\ rangeRows[2].max_range_1 = Num(5)
    /\ rangeRows[1].id # rangeRows[2].id
    /\ accepted = {1}
    /\ DOMAIN ranges = {rangeRows[1].id, rangeRows[2].id}
    /\ ranges[rangeRows[2].id].max_range = Num(5)

\* the entry lines are in ascending order of the spell id
SortedBySpell(lines) ==
    \A i \in 1..Len(lines) : \A j \in 1..Len(lines) :
        i < j => lines[i].spell <= lines[j].spell

\* C10: the same rows of a table fed in two different orders give identical
\* serialized output, sorted by primary key, also when rows share a key.
C10_OrderIndependentOutput ==
    (pc = "SpellMeleeRange:done") =>
        /\ luaFile[1] = luaFile[2]
        /\ SortedBySpell(luaFile[1])


-----------------------------------------------------------------------------
(* Soulbinds.py *)

\* d.get(k, dflt)
Get(f, k, dflt) == IF k \in DOMAIN f THEN f[k] ELSE dflt

\* text.isdigit(): the text of a non-negative integer
IsDigit(f) == f.ok /\ f.d = 1 /\ f.n >= 0

\* sorted(rows, key=...), keys[i] the key of rows[i]: ascending by key, rows of
\* equal key in their order
StableSort(rows, keys) ==
    LET n == Len(rows)
        rank(i) == 1 + Cardinality({j \in 1..n :
                          \/ keys[j] < keys[i]
                          \/ keys[j] = keys[i] /\ j < i})
    IN  [p \in 1..n |-> rows[CHOOSE i \in 1..n : rank(i) = p]]

\* process_spell_names: the loop over SpellName.csv from row i on.  The key is
\* the id text of the row; a row with an empty name is not stored.
RECURSIVE process_spell_names(_, _, _)
process_spell_names(rows, i, names) ==
    IF i > Len(rows) THEN names
    ELSE IF rows[i].name # ""
    THEN process_spell_names(rows, i + 1, Put(names, rows[i].id, rows[i].name))
    ELSE process_spell_names(rows, i + 1, names)

\* process_talent_ranks: the loop over GarrTalentRank.csv from row i on
RECURSIVE process_talent_ranks(_, _, _)
process_talent_ranks(rows, i, spells) ==
    IF i > Len(rows) THEN spells
    ELSE IF /\ IsDigit(rows[i].id_parent) /\ IsDigit(rows[i].id_spell)
            /\ rows[i].id_spell.n > 0 /\ rows[i].id_parent.n > 0
    THEN process_talent_ranks(rows, i + 1,
                              Put(spells, rows[i].id_parent.n, rows[i].id_spell.n))
    ELSE process_talent_ranks(rows, i + 1, spells)

\* the ability dict of a talent row (process_talents)
Ability(row, spells, names) ==
    LET talent_id == row.id.n
        a0 == [soulbindAbilityId |-> talent_id, soulbindAbilityName |-> row.name]
        a1 == IF talent_id \in DOMAIN spells
              THEN LET spell_id   == spells[talent_id]
                       spell_name == Get(names, Num(spell_id), "")
                       withId     == Put(a0, "soulbindAbilitySpellId", spell_id)
                   IN  IF spell_name # ""
                       THEN Put(withId, "soulbindAbilityName", spell_name)
                       ELSE withId
              ELSE a0
        a2 == IF row.conduit_type.ok /\ row.conduit_type.n > 0
              THEN Put(a1, "soulbindAbilityConduitType", row.conduit_type.n)
              ELSE a1
    IN  IF row.id_garr_talent_prereq.ok /\ row.id_garr_talent_prereq.n > 0
        THEN Put(a2, "soulbindAbilityPrereq", row.id_garr_talent_prereq.n)
        ELSE a2

\* an assembler that keeps the record it already has at the path
SetAbility_KeepFirst(trees, tree_id, tier, ui_order, ability) ==
    LET tree == Get(trees, tree_id, EmptyDict)
        row  == Get(tree, tier, EmptyDict)
    IN  IF ui_order \in DOMAIN row THEN trees
        ELSE Put(trees, tree_id, Put(tree, tier, Put(row, ui_order, ability)))

\* talent_trees[tree_id][tier][ui_order] = ability   (defaultdict creates the levels)
SetAbility(trees, tree_id, tier, ui_order, ability) ==
    LET tree == Get(trees, tree_id, EmptyDict)
        row  == Get(tree, tier, EmptyDict)
    IN  Put(trees, tree_id, Put(tree, tier, Put(row, ui_order, ability)))

\* process_talents: the loop body for one row of GarrTalent.csv
process_talents(row, trees, spells, names) ==
    IF ~(row.id.ok /\ row.id_garr_talent_tree.ok /\ row.tier.ok /\ row.ui_order.ok)
    THEN trees
    ELSE IF row.id.n <= 0 \/ row.id_garr_talent_tree.n <= 0
    THEN trees
    ELSE SetAbility(trees, row.id_garr_talent_tree.n, row.tier.n, row.ui_order.n,
                    Ability(row, spells, names))

\* the soulbind dict of a row of Soulbind.csv
Soulbind(row, trees) ==
    [soulbindId     |-> row.id.n,
     soulbindName   |-> row.name,
     soulbindTreeID |-> row.id_garr_talent_tree.n,
     soulbindTree   |-> Get(trees, row.id_garr_talent_tree.n, EmptyDict)]

\* process_soulbinds: a soulbind per row whose ids convert, sorted by soulbindId
process_soulbinds(rows, trees) ==
    LET kept == RowsAt(rows, {i \in 1..Len(rows) :
                                 rows[i].id.ok /\ rows[i].id_garr_talent_tree.ok})
    IN  StableSort([j \in 1..Len(kept) |-> Soulbind(kept[j], trees)],
                   [j \in 1..Len(kept) |-> kept[j].id.n])

\* process_covenants, first loop: soulbind id -> covenant id from Soulbind.csv,
\* a later row of the same soulbind id replaces an earlier one
soulbind_covenant_map(rows) ==
    LET ok == {i \in 1..Len(rows) : /\ rows[i].id.ok /\ rows[i].id_covenant.ok
                                    /\ rows[i].id.n > 0 /\ rows[i].id_covenant.n > 0}
        last(k) == CHOOSE i \in ok : /\ rows[i].id.n = k
                                     /\ \A j \in ok : rows[j].id.n = k => j <= i
    IN  [k \in {rows[i].id.n : i \in ok} |-> rows[last(k)].id_covenant.n]

\* process_covenants: the soulbinds grouped by covenant, a covenant per row of
\* Covenant.csv whose id converts, sorted by covenantId
process_covenants(covenant_data, sbs, sb_data) ==
    LET map == soulbind_covenant_map(sb_data)
        covenant_map(c) ==
            LET Member(s) == /\ s.soulbindId \in DOMAIN map
                             /\ map[s.soulbindId] = c
            IN  SelectSeq(sbs, Member)
        kept == RowsAt(covenant_data,
                       {i \in 1..Len(covenant_data) : covenant_data[i].id.ok})
    IN  StableSort([j \in 1..Len(kept) |->
                       [covenantId   |-> kept[j].id.n,
                        covenantName |-> kept[j].name,
                        soulbinds    |-> covenant_map(kept[j].id.n)]],
                   [j \in 1..Len(kept) |-> kept[j].id.n])

(* Inputs *)

SpellNameRow(id, name) == [id |-> id, name |-> name]
SpellNameTables ==
    { <<SpellNameRow(Num(101), "Alpha")>>,
      <<SpellNameRow(Num(101), "Alpha"), SpellNameRow(Num(102), ""),
        SpellNameRow(Num(103), "Gamma")>> }

RankRow(p, s) == [id_parent |-> p, id_spell |-> s]
RankTables ==
    { <<RankRow(Num(1), Num(101))>>,
      <<RankRow(Num(1), Num(101)), RankRow(Num(1), Num(103)),
        RankRow(Num(2), NaN), RankRow(Num(-1), Num(101)), RankRow(Num(2), Num(0))>>,
      <<RankRow(Num(2), Num(102))>> }

TalentRow(id, tree, tier, order, name, conduit, prereq) ==
    [id |-> id, id_garr_talent_tree |-> tree, tier |-> tier, ui_order |-> order,
     name |-> name, conduit_type |-> conduit, id_garr_talent_prereq |-> prereq]

TalentRowSet ==
       {TalentRow(Num(id), Num(tree), Num(tier), Num(0), "Talent", Num(0), Num(0)) :
            id \in {1, 2}, tree \in {1, 2}, tier \in {0, 1}}
       \* optional fields
  \cup {TalentRow(Num(2), Num(1), Num(1), Num(1), "Talent", Num(2), Num(1)),
        TalentRow(Num(2), Num(1), Num(1), Num(1), "Talent", NaN, NaN)}
       \* ids that are not positive, fields that do not convert
  \cup {TalentRow(Num(0), Num(1), Num(0), Num(0), "Talent", Num(0), Num(0)),
        TalentRow(Num(1), Num(-1), Num(0), Num(0), "Talent", Num(0), Num(0)),
        TalentRow(Num(1), Num(1), NaN, Num(0), "Talent", Num(0), Num(0)),
        TalentRow(NaN, Num(2), Num(0), Num(0), "Talent", Num(0), Num(0))}

SoulbindRow(id, name, tree, cov) ==
    [id |-> id, name |-> name, id_garr_talent_tree |-> tree, id_covenant |-> cov]
SoulbindTables ==
    { <<SoulbindRow(Num(2), "Pelagos", Num(2), Num(1)),
        SoulbindRow(Num(1), "Niya", Num(1), Num(1))>>,
      <<SoulbindRow(Num(1), "Niya", Num(9), Num(1))>>,
      <<SoulbindRow(NaN, "Kleia", Num(1), Num(1)),
        SoulbindRow(Num(3), "Mikanikos", Num(1), Num(7)),
        SoulbindRow(Num(4), "Emeni", Num(1), Num(2)),
        SoulbindRow(Num(4), "Emeni", Num(1), Num(1))>> }

CovenantRow(id, name) == [id |-> id, name |-> name]
CovenantTables ==
    { <<CovenantRow(Num(1), "Kyrian")>>,
      <<CovenantRow(Num(2), "Venthyr"), CovenantRow(NaN, "Necrolord"),
        CovenantRow(Num(1), "Kyrian")>> }

(* main() of Soulbinds.py *)

InitSoul ==
    /\ pc = "Soulbinds:process_spell_names"
    /\ IdleSoul
    /\ IdleAura
    /\ IdleAzerite
    /\ IdleReader
    /\ IdleLookup
    /\ IdleTree
    /\ IdleRPPM
    /\ IdleRange
    /\ IdleLua
    /\ IdleBatch
    /\ IdlePool
    /\ IdleTick
    /\ IdleOut
    /\ IdleFilter

\* spell_names = process_spell_names(mmap_read_csv(SpellName.csv))
SoulSpellNames ==
    /\ pc = "Soulbinds:process_spell_names"
    /\ \E t \in SpellNameTables :
          /\ spell_data' = t
          /\ spell_names' = process_spell_names(t, 1, EmptyDict)
    /\ pc' = "Soulbinds:process_talent_ranks"
    /\ UNCHANGED <<tree_spells, talentRows, talent_trees, soulbind_data, soulbinds,
                   covenants, jsonFile, notSoul>>

\* tree_spells = process_talent_ranks(mmap_read_csv(GarrTalentRank.csv))
SoulTalentRanks ==
    /\ pc = "Soulbinds:process_talent_ranks"
    /\ \E t \in RankTables : tree_spells' = process_talent_ranks(t, 1, EmptyDict)
    /\ pc' = "Soulbinds:process_talents"
    /\ UNCHANGED <<spell_data, spell_names, talentRows, talent_trees, soulbind_data,
                   soulbinds, covenants, jsonFile, notSoul>>

\* process_talents: one iteration of `for row in talent_data`
SoulTalentRow ==
    /\ pc = "Soulbinds:process_talents"
    /\ Len(talentRows) < MaxTalentRows
    /\ \E row \in TalentRowSet :
          /\ talentRows' = Append(talentRows, row)
          /\ talent_trees' = process_talents(row, talent_trees, tree_spells, spell_names)
    /\ UNCHANGED <<pc, spell_data, spell_names, tree_spells, soulbind_data, soulbinds,
                   covenants, jsonFile, notSoul>>

\* process_talents returns
SoulTalentEnd ==
    /\ pc = "Soulbinds:process_talents"
    /\ pc' = "Soulbinds:process_soulbinds"
    /\ UNCHANGED <<varsSoul, notSoul>>

\* soulbinds = process_soulbinds(mmap_read_csv(Soulbind.csv), talent_trees)
SoulSoulbinds ==
    /\ pc = "Soulbinds:process_soulbinds"
    /\ \E t \in SoulbindTables :
          /\ soulbind_data' = t
          /\ soulbinds' = process_soulbinds(t, talent_trees)
    /\ pc' = "Soulbinds:process_covenants"
    /\ UNCHANGED <<spell_data, spell_names, tree_spells, talentRows, talent_trees,
                   covenants, jsonFile, notSoul>>

\* covenants = process_covenants(mmap_read_csv(Covenant.csv), soulbinds, Soulbind.csv)
SoulCovenants ==
    /\ pc = "Soulbinds:process_covenants"
    /\ \E t \in CovenantTables :
          covenants' = process_covenants(t, soulbinds, soulbind_data)
    /\ pc' = "Soulbinds:write_json_file"
    /\ UNCHANGED <<spell_data, spell_names, tree_spells, talentRows, talent_trees,
                   soulbind_data, soulbinds, jsonFile, notSoul>>

\* write_json_file(output_file, covenants)
SoulWrite ==
    /\ pc = "Soulbinds:write_json_file"
    /\ jsonFile' = covenants
    /\ pc' = "Soulbinds:done"
    /\ UNCHANGED <<spell_data, spell_names, tree_spells, talentRows, talent_trees,
                   soulbind_data, soulbinds, covenants, notSoul>>

NextSoul ==
    \/ SoulSpellNames
    \/ SoulTalentRanks
    \/ SoulTalentRow
    \/ SoulTalentEnd
    \/ SoulSoulbinds
    \/ SoulCovenants
    \/ SoulWrite

SpecSoulbinds == InitSoul /\ [][NextSoul]_vars


-----------------------------------------------------------------------------
(* Properties of the Soulbinds unit *)

\* the tree ids of the rows of GarrTalent.csv
TalentTreeIds ==
    {talentRows[i].id_garr_talent_tree.n :
        i \in {j \in 1..Len(talentRows) : talentRows[j].id_garr_talent_tree.ok}}

\* the ids of the rows of SpellName.csv
SpellNameIds == {spell_data[i].id : i \in 1..Len(spell_data)}

\* the abilities of a soulbind tree
TreeAbilities(tree) ==
    {tree[tier][order] : <<tier, order>> \in
        {x \in (DOMAIN tree) \X UNION {DOMAIN tree[t] : t \in DOMAIN tree} :
            x[2] \in DOMAIN tree[x[1]]}}

\* the soulbinds written to Soulbinds.json
WrittenSoulbinds ==
    UNION {{jsonFile[c].soulbinds[k] : k \in 1..Len(jsonFile[c].soulbinds)} :
              c \in 1..Len(jsonFile)}

\* C9: no record of the output holds a dangling reference: the talent-tree id of
\* every written soulbind is a tree id of GarrTalent.csv, and the spell id of
\* every written ability is an id of SpellName.csv.
C9_NoDanglingReference ==
    (pc = "Soulbinds:done") =>
        \A sb \in WrittenSoulbinds :
            /\ sb.soulbindTreeID \in TalentTreeIds
            /\ \A a \in TreeAbilities(sb.soulbindTree) :
                  "soulbindAbilitySpellId" \in DOMAIN a =>
                      Num(a.soulbindAbilitySpellId) \in SpellNameIds


-----------------------------------------------------------------------------
(* SpellAuraStat.py *)

CHUNK_SIZE == 500
EFFECT_TYPE_APPLY_AURA == 6
\* the sub types of AURA_TYPES
AURA_TYPES == {29, 137, 189, 193, 290, 318, 471}
DPS_RATING_MASKS == {1792, 917504, 33554432, 1879048192}

Min(a, b) == IF a <= b THEN a ELSE b
Max(a, b) == IF a >= b THEN a ELSE b

\* CPU_COUNT = max(1, min(mp.cpu_count() - 1, 8))
CPU_COUNT(cores) == Max(1, Min(cores - 1, 8))

is_dps_aura(sub_type, misc_value) ==
    IF sub_type \in AURA_TYPES
    THEN IF sub_type = 189 THEN misc_value \in DPS_RATING_MASKS ELSE TRUE
    ELSE FALSE

AuraData(spell_id, is_dps_stat) == [spell_id |-> spell_id, is_dps_stat |-> is_dps_stat]

\* process_chunk, row by row.  A row assigns current_spell when its id_parent
\* converts, is positive and differs from current_spell, and its type converts
\* and is EFFECT_TYPE_APPLY_AURA.  A row that passes these tests but for the
\* difference leaves current_spell at the same id, so before row i current_spell
\* is the id of the last row before i that passes them (None, 0 here, if there
\* is none: every chunk starts with current_spell = None).
SetsSpell(row) ==
    /\ row.id_parent.ok /\ row.id_parent.n > 0
    /\ row.type.ok /\ row.type.n = EFFECT_TYPE_APPLY_AURA

current_spell(chunk, i) ==
    LET before == {j \in 1..(i - 1) : SetsSpell(chunk[j])}
    IN  IF before = {} THEN 0
        ELSE chunk[CHOOSE j \in before : \A k \in before : k <= j].id_parent.n

\* the row appends an AuraData: it assigns current_spell and its sub_type and
\* misc_value_1 convert
AppendsAura(chunk, i) ==
    /\ SetsSpell(chunk[i])
    /\ chunk[i].id_parent.n # current_spell(chunk, i)
    /\ chunk[i].sub_type.ok /\ chunk[i].misc_value_1.ok

\* process_chunk: the AuraData of the rows that append one, in the order of the rows
process_chunk(chunk) ==
    LET kept == RowsAt(chunk, {i \in 1..Len(chunk) : AppendsAura(chunk, i)})
    IN  [j \in 1..Len(kept) |->
            AuraData(kept[j].id_parent.n,
                     is_dps_aura(kept[j].sub_type.n, kept[j].misc_value_1.n))]

\* chunk_size = max(100, min(CHUNK_SIZE, len(spell_data) // (CPU_COUNT * 4)))
chunk_size(rows, cpus) == Max(100, Min(CHUNK_SIZE, Len(rows) \div (cpus * 4)))

\* the number of chunks: len(range(0, len(spell_data), chunk_size))
NumChunks(rows, size) == (Len(rows) + size - 1) \div size

\* chunks[k - 1] = spell_data[i:i + chunk_size], i = (k - 1) * chunk_size
Chunk(rows, k, size) == SubSeq(rows, (k - 1) * size + 1, Min(k * size, Len(rows)))

\* item for chunk in results for item in chunk
RECURSIVE Flatten(_)
Flatten(seqs) == IF seqs = << >> THEN << >> ELSE Head(seqs) \o Flatten(Tail(seqs))

\* sorted(..., key=lambda x: x.spell_id)
SortAura(items) == StableSort(items, [j \in 1..Len(items) |-> items[j].spell_id])


\* a line of a Lua file: a comment, a statement or an entry assignment T[key] = value
LuaLine(kind, key, value) == [kind |-> kind, key |-> key, value |-> value]
LuaText(kind, text) == LuaLine(kind, 0, text)

\* SpellAuraStat.write_lua_file: the lines of the file.  The header is joined
\* without a final newline and ends with "", so the entries start on a new line;
\* every chunk of entries ends with a newline; the footer starts with "".
aura_write_lua_file(aura_data) ==
    <<LuaText("comment", "-- Auto-generated spell aura stat data"),
      LuaText("comment", "-- Format: [SpellID] = isDPSStat"),
      LuaText("comment", "-- true = Primary/Secondary stats (DPS)"),
      LuaText("comment", "-- false = Tertiary/Other stats"),
      LuaText("local", "local SpellAuraStat = {}"),
      LuaText("blank", ""),
      LuaText("comment", "-- Pre-allocate known size for better performance"),
      LuaText("default",
              "SpellAuraStat = setmetatable({}, {__index = function() return false end})"),
      LuaLine("comment", Len(aura_data), "-- Estimated aura entries count")>>
    \o [j \in 1..Len(aura_data) |->
           LuaLine("entry", aura_data[j].spell_id,
                   IF aura_data[j].is_dps_stat THEN "true" ELSE "false")]
    \o <<LuaText("blank", ""),
         LuaText("comment", "-- Freeze the table for security and performance"),
         LuaText("freeze", "setmetatable(SpellAuraStat, nil)"),
         LuaText("blank", ""),
         LuaText("global", "HeroDBC.DBC.SpellAuraStat = SpellAuraStat"),
         LuaText("return", "return SpellAuraStat")>>

(* Inputs *)

EffectRow(p, t, s, m) == [id_parent |-> p, type |-> t, sub_type |-> s, misc_value_1 |-> m]

\* a row that applies no aura
FillerRow == EffectRow(Num(1), Num(3), Num(0), Num(0))

\* a table of MaxEffectRows rows: two aura rows of spell 7 at the rows at and
\* at + 1, every other row applies no aura
LongTable(at) ==
    [i \in 1..MaxEffectRows |->
        IF i \in {at, at + 1} THEN EffectRow(Num(7), Num(6), Num(29), Num(0))
        ELSE FillerRow]

EffectTables ==
    { LongTable(50), LongTable(100), LongTable(101), LongTable(200),
      << >>,
      <<EffectRow(Num(9), Num(6), Num(189), Num(1792)),
        EffectRow(Num(9), Num(6), Num(189), Num(5)),
        EffectRow(Num(4), Num(6), Num(189), Num(5)),
        EffectRow(Num(2), Num(6), Num(7), Num(0))>>,
      <<EffectRow(Num(3), Num(6), NaN, Num(0)),
        EffectRow(Num(3), Num(6), Num(290), Num(0)),
        EffectRow(NaN, Num(6), Num(290), Num(0)),
        EffectRow(Num(5), NaN, Num(290), Num(0)),
        EffectRow(Num(5), Num(6), Num(471), Num(0)),
        EffectRow(Num(0), Num(6), Num(29), Num(0)),
        EffectRow(Num(3), Num(6), Num(29), Num(0))>> }

(* main() of SpellAuraStat.py, run twice on the same input *)

InitAura ==
    /\ pc = "SpellAuraStat:mmap_read_csv"
    /\ IdleAura
    /\ IdleAzerite
    /\ IdleReader
    /\ IdleLookup
    /\ IdleTree
    /\ IdleRPPM
    /\ IdleRange
    /\ IdleSoul
    /\ IdleLua
    /\ IdleBatch
    /\ IdlePool
    /\ IdleTick
    /\ IdleOut
    /\ IdleFilter

\* spell_data = mmap_read_csv(SpellEffect.csv); each run on a machine of its own
AuraRead ==
    /\ pc = "SpellAuraStat:mmap_read_csv"
    /\ \E t \in EffectTables : effect_data' = t
    /\ \E c1 \in 1..MaxCores : \E c2 \in 1..MaxCores :
          cpu_count' = <<CPU_COUNT(c1), CPU_COUNT(c2)>>
    /\ results' = << << >>, << >> >>
    /\ pc' = "SpellAuraStat:process_spell_data"
    /\ UNCHANGED <<processed_data, auraFile, notAura>>

\* process_spell_data: pool.imap yields the result of the next chunk, in the
\* order of the chunks
AuraChunk ==
    /\ pc = "SpellAuraStat:process_spell_data"
    /\ \E r \in {1, 2} :
          LET size == chunk_size(effect_data, cpu_count[r])
              k    == Len(results[r]) + 1
          IN  /\ k <= NumChunks(effect_data, size)
              /\ results' = [results EXCEPT ![r] =
                     Append(@, process_chunk(Chunk(effect_data, k, size)))]
    /\ UNCHANGED <<pc, effect_data, cpu_count, processed_data, auraFile, notAura>>

\* process_spell_data returns the sorted items of all chunks
AuraSorted ==
    /\ pc = "SpellAuraStat:process_spell_data"
    /\ \A r \in {1, 2} :
          Len(results[r]) = NumChunks(effect_data, chunk_size(effect_data, cpu_count[r]))
    /\ processed_data' = <<SortAura(Flatten(results[1])), SortAura(Flatten(results[2]))>>
    /\ pc' = "SpellAuraStat:write_lua_file"
    /\ UNCHANGED <<effect_data, cpu_count, results, auraFile, notAura>>

\* write_lua_file(output_file, processed_data)
AuraWrite ==
    /\ pc = "SpellAuraStat:write_lua_file"
    /\ auraFile' = <<aura_write_lua_file(processed_data[1]),
                     aura_write_lua_file(processed_data[2])>>
    /\ pc' = "SpellAuraStat:done"
    /\ UNCHANGED <<effect_data, cpu_count, results, processed_data, notAura>>

NextAura ==
    \/ AuraRead
    \/ AuraChunk
    \/ AuraSorted
    \/ AuraWrite

SpecAura == InitAura /\ [][NextAura]_vars


-----------------------------------------------------------------------------
(* Properties of the SpellAuraStat unit *)

\* C11: two runs of a unit on identical input write identical output files,
\* whatever the CPU count of the machine (and the chunk size derived from it).
C11_SameOutputTwice ==
    (pc = "SpellAuraStat:done") => auraFile[1] = auraFile[2]


-----------------------------------------------------------------------------
(* AzeritePower.py.  The ids of the azerite tables are compared as text. *)

\* the empty text ''
EmptyText == [ok |-> FALSE, n |-> -1, d |-> 1]

\* del d[k]
Del(f, k) == [x \in (DOMAIN f) \ {k} |-> f[x]]

\* the indexes of a list
Indexes(rows) == 1..Len(rows)
\* the largest and the smallest element of a non-empty set of indexes
LastIn(S) == CHOOSE i \in S : \A j \in S : j <= i
FirstIn(S) == CHOOSE i \in S : \A j \in S : i <= j

\* process_valid_power_sets: valid_sets[item['id_power_set']] = item for the
\* empowered items whose id_item is an id of ItemSparse.csv; a later item of the
\* same power set replaces an earlier one
process_valid_power_sets(empowered_items, items) ==
    LET item_ids == {items[i].id : i \in Indexes(items)}
        ok == {i \in Indexes(empowered_items) : empowered_items[i].id_item \in item_ids}
    IN  [k \in {empowered_items[i].id_power_set : i \in ok} |->
            empowered_items[LastIn({i \in ok : empowered_items[i].id_power_set = k})]]

\* next(p for p in powers if p['id'] == power_id)
PowerOf(powers, power_id) ==
    powers[FirstIn({i \in Indexes(powers) : powers[i].id = power_id})]

\* process_valid_powers: the test of one member
ValidMember(member, sets, powers, names) ==
    /\ member.id_parent \in DOMAIN sets
    /\ member.id_power \in {powers[i].id : i \in Indexes(powers)}
    /\ LET spell_id == PowerOf(powers, member.id_power).id_spell
       IN  /\ spell_id # Num(0)
           /\ spell_id \in {names[i].id : i \in Indexes(names)}

\* process_valid_powers: valid_powers[power_id] = power for the valid members.
\* The dict keeps a key at the place of its first insertion: the result is the
\* list of its values in that order.
process_valid_powers(power_set_members, sets, powers, names) ==
    LET valid == {i \in Indexes(power_set_members) :
                     ValidMember(power_set_members[i], sets, powers, names)}
        first == {i \in valid : \A j \in valid :
                     power_set_members[j].id_power = power_set_members[i].id_power
                         => i <= j}
        kept  == RowsAt(power_set_members, first)
    IN  [j \in Indexes(kept) |-> PowerOf(powers, kept[j].id_power)]


\* process_power_specs: raised when an id_spec of the spec set does not convert
process_power_specs(power, spec_members, specs_whitelist) ==
    LET members == IF power.id_spec_set_member # Num(0)
                   THEN {i \in Indexes(spec_members) :
                            spec_members[i].id_parent = power.id_spec_set_member}
                   ELSE {}
        listed  == IF power.id \in DOMAIN specs_whitelist
                   THEN specs_whitelist[power.id] ELSE {}
    IN  [raised |-> \E i \in members : ~spec_members[i].id_spec.ok,
         specs  |-> SortedSeq({spec_members[i].id_spec.n : i \in members} \cup listed)]

\* process_tier_unlocks: raised when a tier or azerite_level does not convert
process_tier_unlocks(item, tier_unlocks) ==
    IF item.id_azerite_tier_unlock = EmptyText
    THEN [raised |-> FALSE, tiers |-> << >>]
    ELSE LET rows == RowsAt(tier_unlocks,
                            {i \in Indexes(tier_unlocks) :
                                tier_unlocks[i].id_parent = item.id_azerite_tier_unlock})
         IN  [raised |-> \E j \in Indexes(rows) :
                             ~rows[j].tier.ok \/ ~rows[j].azerite_level.ok,
              tiers  |-> [j \in Indexes(rows) |->
                             [tier |-> rows[j].tier.n,
                              azerite_level |-> rows[j].azerite_level.n]]]

\* main, `for item in empowered_items`: the items of a power set member
MemberItems(member, empowered_items, tier_unlocks) ==
    LET rows == RowsAt(empowered_items,
                       {i \in Indexes(empowered_items) :
                           empowered_items[i].id_power_set = member.id_parent})
    IN  [raised |-> \E j \in Indexes(rows) :
                        \/ ~rows[j].id_item.ok
                        \/ process_tier_unlocks(rows[j], tier_unlocks).raised,
         items  |-> [j \in Indexes(rows) |->
                        [itemId |-> rows[j].id_item.n,
                         tiers  |-> process_tier_unlocks(rows[j], tier_unlocks).tiers]]]

\* main, `for member in power_set_members`: the sets of a power; a member
\* without items adds no set
PowerSets(power_id, power_set_members, empowered_items, tier_unlocks) ==
    LET mine   == {i \in Indexes(power_set_members) :
                      power_set_members[i].id_power = power_id}
        Items(i) == MemberItems(power_set_members[i], empowered_items, tier_unlocks)
        rows   == RowsAt(power_set_members, {i \in mine : Items(i).items # << >>})
    IN  [raised |-> \E i \in mine :
                        \/ ~power_set_members[i].class_id.ok
                        \/ ~power_set_members[i].tier.ok
                        \/ ~power_set_members[i].index.ok
                        \/ Items(i).raised,
         sets   |-> [j \in Indexes(rows) |->
                        [classId |-> rows[j].class_id.n,
                         tier    |-> rows[j].tier.n,
                         index   |-> rows[j].index.n,
                         items   |-> MemberItems(rows[j], empowered_items,
                                                 tier_unlocks).items]]]

\* main, the body of `for power_id, power in valid_powers.items()`: appended is
\* whether power_data is appended to azerite_powers (no exception, some set)
PowerData(power, t, specs_whitelist) ==
    LET specs == process_power_specs(power, t["SpecSetMember.csv"], specs_whitelist)
        sets  == PowerSets(power.id, t["AzeritePowerSetMember.csv"],
                           t["AzeriteEmpoweredItem.csv"], t["AzeriteTierUnlock.csv"])
        names == t["SpellName.csv"]
    IN  [appended |-> /\ power.id.ok /\ power.id_spell.ok
                      /\ ~specs.raised /\ ~sets.raised
                      /\ sets.sets # << >>,
         data |-> [powerId   |-> power.id.n,
                   spellId   |-> power.id_spell.n,
                   spellName |-> names[FirstIn({i \in Indexes(names) :
                                                   names[i].id = power.id_spell})].name,
                   specs     |-> specs.specs,
                   sets      |-> sets.sets]]

\* main: azerite_powers, the power_data of the valid powers, in their order
GeneratePowers(powers, t, specs_whitelist) ==
    LET kept == RowsAt(powers, {i \in Indexes(powers) :
                                   PowerData(powers[i], t, specs_whitelist).appended})
    IN  [j \in Indexes(kept) |-> PowerData(kept[j], t, specs_whitelist).data]

\* write_json_file, with_items = False: the power dict after the loop body
WithoutItems(power) ==
    IF "sets" \in DOMAIN power /\ power.sets # << >>
    THEN LET classes == SortedSeq({power.sets[i].classId : i \in Indexes(power.sets)})
         IN  Del(Put(Put(power, "classesId", classes), "tier", power.sets[1].tier),
                 "sets")
    ELSE power

\* write_json_file(output_file, data, with_items): the list after the call; the
\* document written is this list
azerite_write_json_file(data, with_items) ==
    IF with_items THEN data
    ELSE [j \in Indexes(data) |-> WithoutItems(data[j])]


(* Inputs *)

EmpoweredRow(item, set, unlock) ==
    [id_item |-> item, id_power_set |-> set, id_azerite_tier_unlock |-> unlock]
EmpoweredTables ==
    { <<EmpoweredRow(Num(500), Num(20), Num(3)),
        EmpoweredRow(Num(501), Num(20), EmptyText)>>,
      <<EmpoweredRow(Num(500), Num(20), Num(3)),
        EmpoweredRow(Num(999), Num(21), Num(3)),
        EmpoweredRow(NaN, Num(22), Num(4))>> }

ItemSparseRow(id) == [id |-> id]
ItemSparseTables ==
    { <<ItemSparseRow(Num(500)), ItemSparseRow(Num(501))>>,
      <<ItemSparseRow(Num(501)), ItemSparseRow(NaN)>> }

MemberRow(set, power, class, tier, index) ==
    [id_parent |-> set, id_power |-> power, class_id |-> class, tier |-> tier,
     index |-> index]
MemberTables ==
    { <<MemberRow(Num(20), Num(12), Num(8), Num(2), Num(1)),
        MemberRow(Num(20), Num(11), Num(8), Num(1), Num(0)),
        MemberRow(Num(21), Num(11), Num(5), Num(3), Num(0)),
        MemberRow(Num(22), Num(11), Num(2), Num(4), Num(0)),
        MemberRow(Num(20), Num(12), Num(3), Num(1), Num(2))>>,
      <<MemberRow(Num(20), Num(12), Num(8), NaN, Num(0)),
        MemberRow(Num(20), Num(11), Num(8), Num(1), Num(0)),
        MemberRow(Num(20), Num(13), Num(8), Num(1), Num(0)),
        MemberRow(Num(22), Num(14), Num(8), Num(1), Num(0))>> }

PowerRow(id, spell, specs) == [id |-> id, id_spell |-> spell, id_spec_set_member |-> specs]
PowerTables ==
    { <<PowerRow(Num(11), Num(101), Num(0)), PowerRow(Num(12), Num(102), Num(7)),
        PowerRow(Num(13), Num(0), Num(0)), PowerRow(Num(14), Num(101), Num(0))>>,
      <<PowerRow(Num(11), Num(101), Num(7)), PowerRow(Num(11), Num(102), Num(0)),
        PowerRow(Num(12), Num(109), Num(0))>> }

AzeriteNameTables ==
    { <<SpellNameRow(Num(101), "Alpha"), SpellNameRow(Num(102), "Beta")>>,
      <<SpellNameRow(Num(101), "Alpha"), SpellNameRow(Num(101), "Other")>> }

SpecRow(p, s) == [id_parent |-> p, id_spec |-> s]
SpecTables ==
    { <<SpecRow(Num(7), Num(63)), SpecRow(Num(7), Num(62)), SpecRow(Num(8), Num(70))>>,
      <<SpecRow(Num(7), NaN)>> }

UnlockRow(p, tier, level) == [id_parent |-> p, tier |-> tier, azerite_level |-> level]
UnlockTables ==
    { <<UnlockRow(Num(3), Num(1), Num(10)), UnlockRow(Num(4), Num(1), Num(1)),
        UnlockRow(Num(3), Num(2), Num(15))>>,
      <<UnlockRow(Num(3), NaN, Num(10))>> }

\* AzeritePowerSpecsWhitelist.json: power id -> specs; {} when it does not load
Whitelists == {EmptyDict, Put(EmptyDict, Num(11), {62, 64})}

(* main() of AzeritePower.py *)

InitAzerite ==
    /\ pc = "AzeritePower:main"
    /\ az_exists \in BOOLEAN
    /\ AzeriteAtStart
    /\ IdleRPPM
    /\ IdleRange
    /\ IdleSoul
    /\ IdleAura
    /\ IdleReader
    /\ IdleLookup
    /\ IdleTree
    /\ IdleLua
    /\ IdleBatch
    /\ IdlePool
    /\ IdleTick
    /\ IdleOut
    /\ IdleFilter

AzMissing_OnlyWithItems ==
    /\ pc = "AzeritePower:main"
    /\ ~az_exists
    /\ azFiles' = Put(azFiles, "AzeritePowerWithItems.json",
                      azerite_write_json_file(<< >>, TRUE))
    /\ pc' = "AzeritePower:done"
    /\ UNCHANGED <<az_exists, az_tables, valid_sets, valid_powers, azerite_powers,
                   notAzerite>>

\* AzeriteEmpoweredItem.csv does not exist: write the two documents of the
\* empty list and return
AzMissing ==
    /\ pc = "AzeritePower:main"
    /\ ~az_exists
    /\ azFiles' = Put(Put(azFiles, "AzeritePowerWithItems.json",
                          azerite_write_json_file(<< >>, TRUE)),
                      "AzeritePower.json", azerite_write_json_file(<< >>, FALSE))
    /\ pc' = "AzeritePower:done"
    /\ UNCHANGED <<az_exists, az_tables, valid_sets, valid_powers, azerite_powers,
                   notAzerite>>

\* load the whitelist, AzeriteEmpoweredItem.csv and ItemSparse.csv;
\* valid_sets = process_valid_power_sets(empowered_items, items)
AzLoadSets ==
    /\ pc = "AzeritePower:main"
    /\ az_exists
    /\ \E w \in Whitelists : \E e \in EmpoweredTables : \E i \in ItemSparseTables :
          /\ az_tables' = Put(Put(Put(az_tables, "AzeritePowerSpecsWhitelist.json", w),
                                  "AzeriteEmpoweredItem.csv", e),
                              "ItemSparse.csv", i)
          /\ valid_sets' = process_valid_power_sets(e, i)
    /\ pc' = "AzeritePower:process_valid_powers"
    /\ UNCHANGED <<az_exists, valid_powers, azerite_powers, azFiles, notAzerite>>

\* load AzeritePowerSetMember.csv, AzeritePower.csv and SpellName.csv;
\* valid_powers = process_valid_powers(...)
AzLoadPowers ==
    /\ pc = "AzeritePower:process_valid_powers"
    /\ \E m \in MemberTables : \E p \in PowerTables : \E n \in AzeriteNameTables :
          /\ az_tables' = Put(Put(Put(az_tables, "AzeritePowerSetMember.csv", m),
                                  "AzeritePower.csv", p),
                              "SpellName.csv", n)
          /\ valid_powers' = process_valid_powers(m, valid_sets, p, n)
    /\ pc' = "AzeritePower:generate"
    /\ UNCHANGED <<az_exists, valid_sets, azerite_powers, azFiles, notAzerite>>

\* load SpecSetMember.csv and AzeriteTierUnlock.csv; the loop that generates
\* azerite_powers
AzGenerate ==
    /\ pc = "AzeritePower:generate"
    /\ \E s \in SpecTables : \E u \in UnlockTables :
          LET t == Put(Put(az_tables, "SpecSetMember.csv", s),
                       "AzeriteTierUnlock.csv", u)
          IN  /\ az_tables' = t
              /\ azerite_powers' =
                     GeneratePowers(valid_powers, t, t["AzeritePowerSpecsWhitelist.json"])
    /\ pc' = "AzeritePower:write_with_items"
    /\ UNCHANGED <<az_exists, valid_sets, valid_powers, azFiles, notAzerite>>

\* write_json_file(AzeritePowerWithItems.json, azerite_powers, True)
AzWriteWithItems ==
    /\ pc = "AzeritePower:write_with_items"
    /\ azerite_powers' = azerite_write_json_file(azerite_powers, TRUE)
    /\ azFiles' = Put(azFiles, "AzeritePowerWithItems.json", azerite_powers')
    /\ pc' = "AzeritePower:write_without_items"
    /\ UNCHANGED <<az_exists, az_tables, valid_sets, valid_powers, notAzerite>>

\* write_json_file(AzeritePower.json, azerite_powers, False): the dicts of the
\* list are changed in place, then written
AzWriteWithoutItems ==
    /\ pc = "AzeritePower:write_without_items"
    /\ azerite_powers' = azerite_write_json_file(azerite_powers, FALSE)
    /\ azFiles' = Put(azFiles, "AzeritePower.json", azerite_powers')
    /\ pc' = "AzeritePower:done"
    /\ UNCHANGED <<az_exists, az_tables, valid_sets, valid_powers, notAzerite>>

NextAzerite ==
    \/ AzMissing
    \/ AzLoadSets
    \/ AzLoadPowers
    \/ AzGenerate
    \/ AzWriteWithItems
    \/ AzWriteWithoutItems

SpecAzerite == InitAzerite /\ [][NextAzerite]_vars


-----------------------------------------------------------------------------
(* Properties of the AzeritePower unit *)

\* C12: when AzeriteEmpoweredItem.csv does not exist the unit writes both
\* documents, each the empty list, reads no table, and ends without raising
\* (main returns: the position after main is "done").
C12_MissingSourceWritesEmpty ==
    ~az_exists =>
        \/ pc = "AzeritePower:main" /\ azFiles = << >> /\ az_tables = << >>
        \/ /\ pc = "AzeritePower:done"
           /\ DOMAIN azFiles = {"AzeritePowerWithItems.json", "AzeritePower.json"}
           /\ \A f \in DOMAIN azFiles : azFiles[f] = << >>
           /\ DOMAIN az_tables = {}

C12_Witness ==
    /\ ~az_exists
    /\ pc = "AzeritePower:done"
    /\ DOMAIN azFiles = {"AzeritePowerWithItems.json", "AzeritePower.json"}


-----------------------------------------------------------------------------
(***************************************************************************)
(* The table readers.                                                      *)
(*                                                                         *)
(* A file is a header line and data lines; a line is a sequence of bytes   *)
(* and a decoded line a sequence of characters.  The bytes of the model    *)
(* are the ASCII characters "a" "b" "c" "1" "2" "," " " and the double     *)
(* quote, which every encoding of the readers decodes to themselves, and   *)
(*   "E9"       the byte 0xE9: U+00E9 in Latin-1 and Windows-1252, a lead  *)
(*              byte without its continuation bytes in UTF-8;              *)
(*   "C3" "A9"  the two bytes of U+00E9 in UTF-8; U+00C3 and U+00A9 in     *)
(*              Latin-1 and Windows-1252;                                   *)
(*   "BOM"      the three bytes EF BB BF of the UTF-8 signature.           *)
(* In the files of the model "E9" and a "C3" that has no "A9" behind it    *)
(* are followed by an ASCII byte or by the end of the line.                *)
(*                                                                         *)
(* Conduits, ItemData and Soulbinds open the file in text mode once for    *)
(* each encoding of their list; ItemRange, SpellMeleeRange, SpellGCD,      *)
(* SpellDuration and SpellTickTime map the file into memory and decode     *)
(* each line as UTF-8.                                                     *)
(***************************************************************************)

\* the encodings Conduits, ItemData and Soulbinds try, in this order
ENCODINGS ==
    <<"utf-8", "utf-8-sig", "latin1", "cp1252", "iso-8859-1", "windows-1252">>

\* str.strip() removes white space, str.strip('"') double quotes
WHITESPACE == {" "}
QUOTE == {"\""}

\* one byte decoded by a single-byte encoding (latin1, cp1252, iso-8859-1)
decode_single_byte(b) ==
    CASE b = "E9" -> <<"U+00E9">>
      [] b = "C3" -> <<"U+00C3">>
      [] b = "A9" -> <<"U+00A9">>
      [] b = "BOM" -> <<"U+00EF", "U+00BB", "U+00BF">>
      [] OTHER -> <<b>>

\* bytes.decode(encoding, errors): [ok, text]; ok is FALSE where Python
\* raises UnicodeDecodeError.  at_start: the bytes begin the file.
RECURSIVE decode(_, _, _, _)
decode(bytes, encoding, errors, at_start) ==
    IF bytes = << >> THEN [ok |-> TRUE, text |-> << >>]
    ELSE
        LET b == Head(bytes)
            step ==
                IF encoding \notin {"utf-8", "utf-8-sig"}
                THEN [ok |-> TRUE, text |-> decode_single_byte(b), used |-> 1]
                ELSE IF b = "BOM"
                THEN [ok |-> TRUE,
                      text |-> IF encoding = "utf-8-sig" /\ at_start
                               THEN << >> ELSE <<"U+FEFF">>,
                      used |-> 1]
                ELSE IF b = "C3" /\ Len(bytes) >= 2 /\ bytes[2] = "A9"
                THEN [ok |-> TRUE, text |-> <<"U+00E9">>, used |-> 2]
                ELSE IF b \in {"E9", "C3", "A9"}
                THEN [ok |-> errors = "replace", text |-> <<"U+FFFD">>, used |-> 1]
                ELSE [ok |-> TRUE, text |-> <<b>>, used |-> 1]
            rest == decode(SubSeq(bytes, step.used + 1, Len(bytes)),
                           encoding, errors, FALSE)
        IN [ok |-> step.ok /\ rest.ok, text |-> step.text \o rest.text]

\* str.strip(chars)
strip(s, chars) ==
    LET keep == {i \in 1..Len(s) : s[i] \notin chars}
    IN IF keep = {} THEN << >>
       ELSE SubSeq(s, CHOOSE i \in keep : \A j \in keep : i <= j,
                      CHOOSE i \in keep : \A j \in keep : i >= j)

\* CSV_PATTERN matches at i: a comma with an even number of double quotes
\* between it and the end of the line
CSV_PATTERN(s, i) ==
    /\ s[i] = ","
    /\ Cardinality({j \in (i + 1)..Len(s) : s[j] = "\""}) % 2 = 0

\* CSV_PATTERN.split(s)
split(s) ==
    LET cuts == SortedSeq({i \in 1..Len(s) : CSV_PATTERN(s, i)})
        n == Len(cuts) + 1
    IN [k \in 1..n |->
          SubSeq(s, IF k = 1 THEN 1 ELSE cuts[k - 1] + 1,
                    IF k = n THEN Len(s) ELSE cuts[k] - 1)]

\* {col: idx for idx, col in enumerate(header) if col in needed_columns}
col_indices(header, needed_columns) ==
    [col \in {header[i] : i \in 1..Len(header)} \cap needed_columns |->
        CHOOSE i \in 1..Len(header) :
            /\ header[i] = col
            /\ \A j \in 1..Len(header) : header[j] = col => j <= i]

\* not all(col in col_indices for col in needed_columns)
MissingColumns(indices, needed_columns) ==
    ~(needed_columns \subseteq DOMAIN indices)

\* a reader that keeps the rows of exactly the header's width
WideEnough_Exact(values, header) == Len(values) = Len(header)

\* len(values) >= len(header)
WideEnough(values, header) == Len(values) >= Len(header)


\* Conduits, ItemData, Soulbinds: the rows of the decoded data lines; a row
\* is kept when it is wide enough and row_data is not empty
RECURSIVE text_rows(_, _, _, _)
text_rows(texts, i, header, indices) ==
    IF i > Len(texts) THEN << >>
    ELSE
        LET values == split(strip(texts[i], WHITESPACE))
            row_data == [col \in DOMAIN indices |->
                           strip(strip(values[indices[col]], QUOTE), WHITESPACE)]
        IN (IF WideEnough(values, header) /\ DOMAIN indices # {}
            THEN <<row_data>> ELSE << >>)
           \o text_rows(texts, i + 1, header, indices)

\* ItemRange.read_csv_rows and the loops of the other memory-mapped readers
RECURSIVE read_csv_rows(_, _, _, _)
read_csv_rows(texts, i, header, indices) ==
    IF i > Len(texts) THEN << >>
    ELSE
        LET values == split(strip(texts[i], WHITESPACE))
        IN (IF WideEnough(values, header)
            THEN <<[col \in DOMAIN indices |-> values[indices[col]]]>>
            ELSE << >>)
           \o read_csv_rows(texts, i + 1, header, indices)

\* a reader that lets the header line alone decide on the encoding and
\* replaces what does not decode behind it
read_with_HeaderDecides(encoding, errors, header_bytes, lines, needed_columns) ==
    LET h == decode(header_bytes, encoding, errors, TRUE)
        texts == [i \in 1..Len(lines) |-> decode(lines[i], encoding, "replace", FALSE)]
        header == split(strip(h.text, WHITESPACE))
        indices == col_indices(header, needed_columns)
    IN IF ~h.ok
       THEN [raised |-> "UnicodeDecodeError", rows |-> << >>]
       ELSE IF MissingColumns(indices, needed_columns)
       THEN [raised |-> "ValueError", rows |-> << >>]
       ELSE [raised |-> "",
             rows |-> text_rows([i \in 1..Len(lines) |-> texts[i].text],
                                1, header, indices)]

\* Conduits, ItemData, Soulbinds: the body of the loop over the encodings,
\* [raised, rows].  The file is opened in text mode, which decodes it in
\* blocks: a byte that does not decode raises UnicodeDecodeError from the
\* readline() or the iteration that reads its block, outside the try of the
\* row loop, and the rows of this encoding are dropped with the call frame.
read_with(encoding, errors, header_bytes, lines, needed_columns) ==
    LET h == decode(header_bytes, encoding, errors, TRUE)
        texts == [i \in 1..Len(lines) |-> decode(lines[i], encoding, errors, FALSE)]
    IN IF ~h.ok \/ \E i \in 1..Len(lines) : ~texts[i].ok
       THEN [raised |-> "UnicodeDecodeError", rows |-> << >>]
       ELSE
           LET header == split(strip(h.text, WHITESPACE))
               indices == col_indices(header, needed_columns)
           IN IF MissingColumns(indices, needed_columns)
              THEN [raised |-> "ValueError", rows |-> << >>]
              ELSE [raised |-> "",
                    rows |-> text_rows([i \in 1..Len(lines) |-> texts[i].text],
                                       1, header, indices)]

\* Conduits, ItemData, Soulbinds: for encoding in encodings, from the k-th
\* on.  Both except clauses continue with the next encoding; behind the loop
\* UnicodeDecodeError is called with one argument instead of its five, which
\* raises TypeError.
RECURSIVE try_encodings(_, _, _, _, _)
try_encodings(k, errors, header_bytes, lines, needed_columns) ==
    IF k > Len(ENCODINGS)
    THEN [raised |-> "TypeError", encoding |-> "", rows |-> << >>]
    ELSE
        LET r == read_with(ENCODINGS[k], errors, header_bytes, lines, needed_columns)
        IN IF r.raised = ""
           THEN [raised |-> "", encoding |-> ENCODINGS[k], rows |-> r.rows]
           ELSE try_encodings(k + 1, errors, header_bytes, lines, needed_columns)

\* ItemRange, SpellMeleeRange, SpellGCD, SpellDuration (check_columns) and
\* SpellTickTime (no check): the exception is logged and raised again
mmap_utf8(header_bytes, lines, needed_columns, check_columns) ==
    LET h == decode(header_bytes, "utf-8", "strict", FALSE)
        texts == [i \in 1..Len(lines) |-> decode(lines[i], "utf-8", "strict", FALSE)]
        header == split(strip(h.text, WHITESPACE))
        indices == col_indices(header, needed_columns)
    IN IF ~h.ok
       THEN [raised |-> "UnicodeDecodeError", encoding |-> "utf-8", rows |-> << >>]
       ELSE IF check_columns /\ MissingColumns(indices, needed_columns)
       THEN [raised |-> "ValueError", encoding |-> "utf-8", rows |-> << >>]
       ELSE IF \E i \in 1..Len(lines) : ~texts[i].ok
       THEN [raised |-> "UnicodeDecodeError", encoding |-> "utf-8", rows |-> << >>]
       ELSE [raised |-> "", encoding |-> "utf-8",
             rows |-> read_csv_rows([i \in 1..Len(lines) |-> texts[i].text],
                                    1, header, indices)]

\* the units whose reader tries the encodings one after the other
FallbackReaders == {"Conduits", "ItemData", "Soulbinds"}
\* the units whose reader decodes UTF-8 only
Utf8Readers ==
    {"ItemRange", "SpellMeleeRange", "SpellGCD", "SpellDuration", "SpellTickTime"}

\* the error handler the unit opens the file with
errors_of(unit) == IF unit = "Soulbinds" THEN "replace" ELSE "strict"

\* mmap_read_csv of the unit: [raised, encoding, rows]
mmap_read_csv(unit, header_bytes, lines, needed_columns) ==
    IF unit \in FallbackReaders
    THEN try_encodings(1, errors_of(unit), header_bytes, lines, needed_columns)
    ELSE mmap_utf8(header_bytes, lines, needed_columns, unit # "SpellTickTime")

(* Inputs *)

\* the columns the caller asks for
NeededColumns == {<<"a">>, <<"b">>}

\* header lines: a,b   a   <BOM>a,b   a,b,c   a,b,<E9>
HeaderLines ==
    { <<"a", ",", "b">>,
      <<"a">>,
      <<"BOM", "a", ",", "b">>,
      <<"a", ",", "b", ",", "c">>,
      <<"a", ",", "b", ",", "E9">> }

\* data lines: 1,2   1   "1", 2   1,<E9>   1,<C3 A9>   "1,2",2   1,2,1
\* 1, "2"   and the empty line
DataLines ==
    { <<"1", ",", "2">>,
      <<"1">>,
      <<"\"", "1", "\"", ",", " ", "2">>,
      <<"1", ",", "E9">>,
      <<"1", ",", "C3", "A9">>,
      <<"\"", "1", ",", "2", "\"", ",", "2">>,
      <<"1", ",", "2", ",", "1">>,
      <<"1", ",", " ", "\"", "2", "\"">>,
      << >> }

\* the files: every sequence of at most MaxFileLines data lines
FileLines == UNION {[1..n -> DataLines] : n \in 0..MaxFileLines}

InitReader ==
    /\ pc = "reader:call"
    /\ reader \in FallbackReaders \cup Utf8Readers
    /\ file_header \in HeaderLines
    /\ file_lines \in FileLines
    /\ read_result = << >>
    /\ IdleRPPM
    /\ IdleRange
    /\ IdleSoul
    /\ IdleAura
    /\ IdleAzerite
    /\ IdleLookup
    /\ IdleTree
    /\ IdleLua
    /\ IdleBatch
    /\ IdlePool
    /\ IdleTick
    /\ IdleOut
    /\ IdleFilter

\* the caller calls the reader and gets rows or an exception
ReadTable ==
    /\ pc = "reader:call"
    /\ read_result' = mmap_read_csv(reader, file_header, file_lines, NeededColumns)
    /\ pc' = "reader:returned"
    /\ UNCHANGED <<reader, file_header, file_lines, notReader>>

NextReader == ReadTable

SpecReader == InitReader /\ [][NextReader]_vars


(* Properties of the table readers *)

\* the column names of the header line as the reader decodes it with the
\* encoding; none where it does not decode
HeaderNames(encoding) ==
    LET h == decode(file_header, encoding, errors_of(reader), TRUE)
        header == split(strip(h.text, WHITESPACE))
    IN IF h.ok THEN {header[i] : i \in 1..Len(header)} ELSE {}

\* a requested column is absent from the header, whatever the encoding
ColumnAbsent ==
    \A k \in 1..Len(ENCODINGS) : ~(NeededColumns \subseteq HeaderNames(ENCODINGS[k]))

\* C13: when a requested column is absent from the header, the read fails
\* with the missing-columns error (the ValueError "Missing required columns")
\* and that error reaches the caller: no other exception, no rows returned.
C13_MissingColumnsReachCaller ==
    (pc = "reader:returned" /\ ColumnAbsent) => read_result.raised = "ValueError"


\* the bytes are well-formed UTF-8: no byte 0xE9, which lacks its
\* continuation bytes, and 0xC3 and 0xA9 only as the pair C3 A9
ValidUtf8(bytes) ==
    \A i \in 1..Len(bytes) :
        /\ bytes[i] # "E9"
        /\ bytes[i] = "C3" => (i < Len(bytes) /\ bytes[i + 1] = "A9")
        /\ bytes[i] = "A9" => (i > 1 /\ bytes[i - 1] = "C3")

\* the reader decodes the bytes with the encoding without a decode failure
Decodes(bytes, encoding) ==
    \/ errors_of(reader) = "replace"
    \/ encoding \notin {"utf-8", "utf-8-sig"}
    \/ ValidUtf8(bytes)

\* the read of the whole file succeeds with the encoding: the header line
\* and every data line decode and the header holds the requested columns
ReadsWith(encoding) ==
    /\ Decodes(file_header, encoding)
    /\ \A i \in 1..Len(file_lines) : Decodes(file_lines[i], encoding)
    /\ NeededColumns \subseteq HeaderNames(encoding)

\* the rows of the file when every line is decoded with the encoding
RowsUnder(encoding) ==
    LET h == decode(file_header, encoding, errors_of(reader), TRUE)
        header == split(strip(h.text, WHITESPACE))
    IN text_rows([i \in 1..Len(file_lines) |->
                     decode(file_lines[i], encoding, errors_of(reader), FALSE).text],
                 1, header, col_indices(header, NeededColumns))

\* the first index of ENCODINGS that satisfies a non-empty set of indexes
FirstOf(indexes) == CHOOSE k \in indexes : \A j \in indexes : k <= j

\* C14 as stated: the reader uses, for every row, the first encoding of the
\* list under which the header line decodes without a decode failure.
C14_HeaderDecodeChoosesEncoding ==
    (pc = "reader:returned" /\ reader \in FallbackReaders /\ read_result.raised = "")
    => read_result.encoding =
           ENCODINGS[FirstOf({k \in 1..Len(ENCODINGS) :
                                 Decodes(file_header, ENCODINGS[k])})]

\* C14 amended: the reader tries the encodings in list order and returns the
\* rows of the first encoding under which the read of the whole file
\* succeeds (header line and every data line decode, the header holds the
\* requested columns); every returned row is decoded with that one encoding,
\* so no row decoded with an abandoned encoding is in the result; the read
\* succeeds exactly when there is such an encoding.
C14_FirstEncodingReadingWholeFile ==
    (pc = "reader:returned" /\ reader \in FallbackReaders)
    => LET good == {k \in 1..Len(ENCODINGS) : ReadsWith(ENCODINGS[k])}
       IN IF good = {} THEN read_result.raised # ""
          ELSE /\ read_result.raised = ""
               /\ read_result.encoding = ENCODINGS[FirstOf(good)]
               /\ read_result.rows = RowsUnder(ENCODINGS[FirstOf(good)])

\* C14 witness: Conduits read a file whose header line and first data line
\* are well-formed UTF-8 and whose second data line is not; both rows of the
\* result are decoded as Latin-1 (the C3 A9 of the first row as two
\* characters).
C14_Witness ==
    /\ pc = "reader:returned"
    /\ reader = "Conduits"
    /\ ValidUtf8(file_header)
    /\ Len(file_lines) = 2
    /\ ValidUtf8(file_lines[1])
    /\ ~ValidUtf8(file_lines[2])
    /\ read_result.raised = ""
    /\ read_result.encoding = "latin1"
    /\ Len(read_result.rows) = 2
    /\ read_result.rows[1][<<"b">>] = <<"U+00C3", "U+00A9">>
    /\ read_result.rows[2][<<"b">>] = <<"U+00E9">>


\* the fields of a line of the file as the read that succeeded decoded it
FieldsOf(bytes, at_start) ==
    split(strip(decode(bytes, read_result.encoding, errors_of(reader), at_start).text,
                WHITESPACE))

\* the data lines with at least as many fields as the header, in file order
WideLines ==
    SortedSeq({i \in 1..Len(file_lines) :
                  Len(FieldsOf(file_lines[i], FALSE)) >= Len(FieldsOf(file_header, TRUE))})

\* the field as it is in the line or with quotes and white space removed
SameField(value, field) ==
    value \in {field, strip(strip(field, QUOTE), WHITESPACE)}

\* C15: a read that returns gives one row for each data line that has at
\* least as many fields as the header and none for a shorter line, in file
\* order, each row holding the line's fields at the requested columns.
C15_WideRowsInFileOrder ==
    (pc = "reader:returned" /\ read_result.raised = "")
    => /\ Len(read_result.rows) = Len(WideLines)
       /\ \A k \in 1..Len(WideLines) :
             LET header == FieldsOf(file_header, reader \in FallbackReaders)
                 values == FieldsOf(file_lines[WideLines[k]], FALSE)
                 row == read_result.rows[k]
             IN /\ DOMAIN row = NeededColumns \cap {header[i] : i \in 1..Len(header)}
                /\ \A col \in DOMAIN row :
                      \E i \in 1..Len(header) :
                          header[i] = col /\ SameField(row[col], values[i])

\* C15 witness: ItemData read a file whose first data line is shorter than
\* the header and whose second is not, and returned the second line alone.
C15_Witness ==
    /\ pc = "reader:returned"
    /\ reader = "ItemData"
    /\ read_result.raised = ""
    /\ Len(file_lines) = 2
    /\ WideLines = <<2>>
    /\ Len(read_result.rows) = 1
    /\ read_result.rows[1][<<"a">>] = <<"1">>
    /\ read_result.rows[1][<<"b">>] = <<"2">>


\* the value neither begins nor ends with a double quote or white space
Unquoted(value) ==
    \/ value = << >>
    \/ /\ value[1] \notin QUOTE \cup WHITESPACE
       /\ value[Len(value)] \notin QUOTE \cup WHITESPACE

\* C16: every field value of every row a reader returns has its surrounding
\* double quotes removed and its leading and trailing white space trimmed,
\* whichever unit's reader it is.
C16_ValuesUnquotedAndTrimmed ==
    (pc = "reader:returned" /\ read_result.raised = "")
    => \A k \in 1..Len(read_result.rows) :
          \A col \in DOMAIN read_result.rows[k] : Unquoted(read_result.rows[k][col])


-----------------------------------------------------------------------------
(***************************************************************************)
(* The single-valued lookups: Soulbinds.process_talent_ranks (talent id -> *)
(* spell id), SpellRPPM.loadPPMID (id_parent -> id_ppm) and                *)
(* ItemRange.process_item_effects (id_spell -> id, both kept as text).     *)
(***************************************************************************)

\* ItemRange.process_item_effects: the loop over the rows from row i on;
\* an empty text is false
RECURSIVE process_item_effects(_, _, _)
process_item_effects(rows, i, items) ==
    IF i > Len(rows) THEN items
    ELSE IF rows[i].id_spell # EmptyText /\ rows[i].id # EmptyText
    THEN process_item_effects(rows, i + 1, Put(items, rows[i].id_spell, rows[i].id))
    ELSE process_item_effects(rows, i + 1, items)

LookupUnits == {"Soulbinds", "SpellRPPM", "ItemRange"}

\* the lookup the unit builds from the rows: [raised, map]
build_lookup(unit, rows) ==
    CASE unit = "Soulbinds" ->
           [raised |-> FALSE, map |-> process_talent_ranks(rows, 1, EmptyDict)]
      [] unit = "SpellRPPM" ->
           LET r == loadPPMID(rows, 1, EmptyDict)
           IN [raised |-> r.raised, map |-> r.ids]
      [] unit = "ItemRange" ->
           [raised |-> FALSE, map |-> process_item_effects(rows, 1, EmptyDict)]

(* Inputs *)

ItemEffectRow(s, i) == [id_spell |-> s, id |-> i]

\* the rows a table of the unit is made of: two rows of one key with
\* different values, a row of another key, a row the unit skips
LookupRowSet(unit) ==
    CASE unit = "Soulbinds" ->
           {RankRow(Num(1), Num(101)), RankRow(Num(1), Num(103)),
            RankRow(Num(2), Num(102)), RankRow(Num(1), NaN)}
      [] unit = "SpellRPPM" ->
           {AuraRow(Num(10), Num(1)), AuraRow(Num(10), Num(2)),
            AuraRow(Num(11), Num(3)), AuraRow(Num(10), Num(0))}
      [] unit = "ItemRange" ->
           {ItemEffectRow(Num(7), Num(501)), ItemEffectRow(Num(7), Num(502)),
            ItemEffectRow(Num(8), Num(503)), ItemEffectRow(Num(7), EmptyText)}

LookupTables(unit) == UNION {[1..n -> LookupRowSet(unit)] : n \in 0..MaxLookupRows}

InitLookup ==
    /\ pc = "lookup:build"
    /\ lookup_unit \in LookupUnits
    /\ lookup_rows \in LookupTables(lookup_unit)
    /\ lookup = << >>
    /\ IdleRPPM
    /\ IdleRange
    /\ IdleSoul
    /\ IdleAura
    /\ IdleAzerite
    /\ IdleReader
    /\ IdleTree
    /\ IdleLua
    /\ IdleBatch
    /\ IdlePool
    /\ IdleTick
    /\ IdleOut
    /\ IdleFilter

\* the unit builds its lookup from the table
BuildLookup ==
    /\ pc = "lookup:build"
    /\ lookup' = build_lookup(lookup_unit, lookup_rows)
    /\ pc' = "lookup:built"
    /\ UNCHANGED <<lookup_unit, lookup_rows, notLookup>>

NextLookup == BuildLookup

SpecLookup == InitLookup /\ [][NextLookup]_vars

(* Properties of the lookups *)

\* the row enters the lookup of the unit
LookupKeeps(unit, row) ==
    CASE unit = "Soulbinds" ->
           /\ IsDigit(row.id_parent) /\ IsDigit(row.id_spell)
           /\ row.id_spell.n > 0 /\ row.id_parent.n > 0
      [] unit = "SpellRPPM" -> row.id_ppm.n # 0
      [] unit = "ItemRange" -> row.id_spell # EmptyText /\ row.id # EmptyText

\* the key and the value the row gives to the lookup of the unit
LookupKey(unit, row) ==
    CASE unit = "Soulbinds" -> row.id_parent.n
      [] unit = "SpellRPPM" -> row.id_parent.n
      [] unit = "ItemRange" -> row.id_spell
LookupValue(unit, row) ==
    CASE unit = "Soulbinds" -> row.id_spell.n
      [] unit = "SpellRPPM" -> row.id_ppm.n
      [] unit = "ItemRange" -> row.id

\* the rows of the table that enter the lookup under the key, by index
RowsOfKey(key) ==
    {i \in 1..Len(lookup_rows) :
        /\ LookupKeeps(lookup_unit, lookup_rows[i])
        /\ LookupKey(lookup_unit, lookup_rows[i]) = key}

\* C17: when several rows of the table carry the same key, the lookup keeps
\* the value of the first of them in file order; the later ones are ignored.
C17_FirstRowWins ==
    (pc = "lookup:built" /\ ~lookup.raised)
    => \A key \in DOMAIN lookup.map :
          \E i \in RowsOfKey(key) :
              /\ \A j \in RowsOfKey(key) : i <= j
              /\ lookup.map[key] = LookupValue(lookup_unit, lookup_rows[i])

\* what the units do: the value of the last row of the key is kept
LastRowWins ==
    (pc = "lookup:built" /\ ~lookup.raised)
    => \A key \in DOMAIN lookup.map :
          \E i \in RowsOfKey(key) :
              /\ \A j \in RowsOfKey(key) : i >= j
              /\ lookup.map[key] = LookupValue(lookup_unit, lookup_rows[i])


-----------------------------------------------------------------------------
(***************************************************************************)
(* The hierarchical assemblers: Talent.process_talent_data folds the       *)
(* results of process_talent_entry into class -> spec -> row -> col, and   *)
(* Soulbinds.process_talents the rows of GarrTalent.csv into               *)
(* tree -> tier -> ui_order.                                               *)
(***************************************************************************)

\* what process_talent_entry returns for a row: None or the talent data with
\* its classification
None == [none |-> TRUE]
TalentEntry(id, spell, name, class_id, spec_id, row, col) ==
    [none |-> FALSE,
     talent_data |-> [talentId |-> id, spellId |-> spell, spellName |-> name],
     class_id |-> class_id, spec_id |-> spec_id, row |-> row, col |-> col]

\* Talent.process_talent_data: the loop body for one result
process_talent_data(result, talents) ==
    IF result.none THEN talents
    ELSE
        LET specs == Get(talents, result.class_id, EmptyDict)
            rows == Get(specs, result.spec_id, EmptyDict)
            cols == Get(rows, result.row, EmptyDict)
        IN Put(talents, result.class_id,
               Put(specs, result.spec_id,
                   Put(rows, result.row,
                       Put(cols, result.col, result.talent_data))))

Assemblers == {"Talent", "Soulbinds"}

\* the lookups Soulbinds.process_talents is given in the assembler's runs
AssemblerTreeSpells == Put(EmptyDict, 1, 101)
AssemblerSpellNames == Put(EmptyDict, Num(101), "Alpha")

\* the loop body of the unit's assembler for one record
assemble(unit, record, trees) ==
    IF unit = "Talent" THEN process_talent_data(record, trees)
    ELSE process_talents(record, trees, AssemblerTreeSpells, AssemblerSpellNames)

(* Inputs *)

\* results of process_talent_entry: two talents at each of four class/spec
\* paths, a talent of an unknown spell at another row, and None
TalentEntries ==
       {TalentEntry(id, 100 + id, "Spell", class_id, spec_id, 0, 0) :
            id \in {1, 2}, class_id \in {1, 2}, spec_id \in {0, 1}}
  \cup {TalentEntry(3, 103, "Unknown_103", 1, 1, 1, 0), None}

AssemblerRecords(unit) == IF unit = "Talent" THEN TalentEntries ELSE TalentRowSet

InitTree ==
    /\ pc = "assembler:loop"
    /\ assembler \in Assemblers
    /\ entries = << >>
    /\ nested = EmptyDict
    /\ IdleRPPM
    /\ IdleRange
    /\ IdleSoul
    /\ IdleAura
    /\ IdleAzerite
    /\ IdleReader
    /\ IdleLookup
    /\ IdleLua
    /\ IdleBatch
    /\ IdlePool
    /\ IdleTick
    /\ IdleOut
    /\ IdleFilter

\* one pass of the loop over the records
TreeRecord ==
    /\ pc = "assembler:loop"
    /\ Len(entries) < MaxTalentRows
    /\ \E record \in AssemblerRecords(assembler) :
          /\ entries' = Append(entries, record)
          /\ nested' = assemble(assembler, record, nested)
    /\ UNCHANGED <<pc, assembler, notTree>>

\* the assembler returns the tree
TreeReturn ==
    /\ pc = "assembler:loop"
    /\ pc' = "assembler:returned"
    /\ UNCHANGED <<varsTree, notTree>>

NextTree == TreeRecord \/ TreeReturn

SpecTrees == InitTree /\ [][NextTree]_vars

(* Properties of the assemblers *)

\* the record is stored in the tree (not skipped)
Stored(unit, record) ==
    IF unit = "Talent" THEN ~record.none
    ELSE /\ record.id.ok /\ record.id_garr_talent_tree.ok
         /\ record.tier.ok /\ record.ui_order.ok
         /\ record.id.n > 0 /\ record.id_garr_talent_tree.n > 0

\* the full key path of a stored record and what is stored there
KeyPath(unit, record) ==
    IF unit = "Talent"
    THEN <<record.class_id, record.spec_id, record.row, record.col>>
    ELSE <<record.id_garr_talent_tree.n, record.tier.n, record.ui_order.n>>
Leaf(unit, record) ==
    IF unit = "Talent" THEN record.talent_data
    ELSE Ability(record, AssemblerTreeSpells, AssemblerSpellNames)

\* the key paths of the nested maps of the given depth
RECURSIVE KeyPaths(_, _)
KeyPaths(maps, depth) ==
    IF depth = 0 THEN {<< >>}
    ELSE UNION {{<<k>> \o p : p \in KeyPaths(maps[k], depth - 1)} : k \in DOMAIN maps}

\* what the nested maps hold at the key path
RECURSIVE At(_, _)
At(maps, path) == IF path = << >> THEN maps ELSE At(maps[Head(path)], Tail(path))

\* the stored records so far, by index
StoredEntries == {i \in 1..Len(entries) : Stored(assembler, entries[i])}

\* the last stored record with the key path of the i-th
LastAt(i) ==
    CHOOSE j \in StoredEntries :
        /\ KeyPath(assembler, entries[j]) = KeyPath(assembler, entries[i])
        /\ \A k \in StoredEntries :
              KeyPath(assembler, entries[k]) = KeyPath(assembler, entries[i]) => k <= j

\* C18: at every key path the tree holds exactly the latest record received
\* with that full path, nothing of an earlier record with the same path, and
\* it has no other paths than those of the records received: a record
\* leaves the records at other paths as they were.
C18_LaterRecordReplaces ==
    /\ KeyPaths(nested, IF assembler = "Talent" THEN 4 ELSE 3)
           = {KeyPath(assembler, entries[i]) : i \in StoredEntries}
    /\ \A i \in StoredEntries :
          At(nested, KeyPath(assembler, entries[i]))
              = Leaf(assembler, entries[LastAt(i)])

\* C18 witness: Soulbinds.process_talents received two rows of the same
\* tree, tier and order, the first with a conduit type and a prerequisite,
\* the second without; the tree holds the ability of the second, which has
\* neither field.
C18_Witness ==
    /\ pc = "assembler:returned"
    /\ assembler = "Soulbinds"
    /\ Len(entries) = 2
    /\ StoredEntries = {1, 2}
    /\ KeyPath(assembler, entries[1]) = KeyPath(assembler, entries[2])
    /\ "soulbindAbilityConduitType" \in DOMAIN Leaf(assembler, entries[1])
    /\ At(nested, KeyPath(assembler, entries[2])) = Leaf(assembler, entries[2])
    /\ DOMAIN At(nested, KeyPath(assembler, entries[2]))
           = {"soulbindAbilityId", "soulbindAbilityName"}


-----------------------------------------------------------------------------
(***************************************************************************)
(* The Lua writers of SpellTickTime, SpellProjectileSpeed, Conduits and    *)
(* SpellRPPM.  A file is the sequence of its lines, a line a LuaLine:      *)
(* kind "entry" for the line (SpellRPPM: the lines) of one entity, with    *)
(* the entity's key.                                                       *)
(***************************************************************************)

MIN_PROJECTILE_SPEED == 0

\* a writer that leaves its data in the order it was given
sorted_by_Unsorted(data, keys) == data

\* sorted(data, key=...): keys[i] is the key of data[i]
sorted_by(data, keys) == StableSort(data, keys)

\* the lines of the entries; a file without entries has the empty line that
\* the header's final "" and the footer's first "" leave between them
EntryLines(lines) == IF lines = << >> THEN <<LuaText("blank", "")>> ELSE lines

\* SpellTickTime.write_lua_file
tick_write_lua_file(data) ==
    LET sorted_data == sorted_by(data, [i \in 1..Len(data) |-> data[i].id])
    IN <<LuaText("comment", "-- Auto-generated spell tick time data"),
         LuaText("comment", "-- Format: [spellID] = {amplitude, hasMechanic}"),
         LuaText("local", "local SpellTickTime = {}"),
         LuaText("blank", ""),
         LuaText("comment", "-- Pre-allocate known size for better performance"),
         LuaText("default",
                 "SpellTickTime = setmetatable({}, {__index = function() return {0, false} end})")>>
       \o EntryLines([j \in 1..Len(sorted_data) |->
              LuaLine("entry", sorted_data[j].id,
                      <<sorted_data[j].amplitude, sorted_data[j].mechanic>>)])
       \o <<LuaText("comment", "-- Freeze the table for security and performance"),
            LuaText("freeze", "setmetatable(SpellTickTime, nil)"),
            LuaText("blank", ""),
            LuaText("global", "HeroDBC.DBC.SpellTickTime = SpellTickTime"),
            LuaText("return", "return SpellTickTime")>>

\* SpellProjectileSpeed.process_chunk keeps the row: float(proj_speed) is
\* above the minimum and int(id_parent) converts
ProjectileRowValid(row) ==
    /\ row.proj_speed.ok
    /\ row.proj_speed.n > MIN_PROJECTILE_SPEED * row.proj_speed.d
    /\ row.id_parent.ok /\ row.id_parent.d = 1

\* SpellProjectileSpeed.process_spell_misc_data: the rows kept by
\* process_chunk, chunk after chunk in the order of the list (pool.imap),
\* sorted by id_parent.  process_chunk treats every row by itself, so the
\* chunks together keep the rows the whole list keeps.
proj_process_spell_misc_data(misc_rows) ==
    LET all_spell_data == SelectSeq(misc_rows, ProjectileRowValid)
        rows_kept == [j \in 1..Len(all_spell_data) |->
                          [id_parent |-> all_spell_data[j].id_parent.n,
                           proj_speed |-> all_spell_data[j].proj_speed.n
                                              \div all_spell_data[j].proj_speed.d]]
    IN sorted_by(rows_kept, [j \in 1..Len(rows_kept) |-> rows_kept[j].id_parent])

\* SpellProjectileSpeed.write_lua_file
proj_write_lua_file(rows) ==
    <<LuaText("comment", "-- Auto-generated spell projectile speed data"),
      LuaText("comment", "-- Format: [SpellID] = ProjectileSpeed"),
      LuaText("local", "local SpellProjectileSpeed = {}"),
      LuaText("blank", ""),
      LuaText("comment", "-- Pre-allocate known size for better performance"),
      LuaText("default",
              "SpellProjectileSpeed = setmetatable({}, {__index = function() return 0 end})"),
      LuaText("comment", "-- Estimated projectile speeds count: {len(valid_rows)}")>>
    \o EntryLines([j \in 1..Len(rows) |->
           LuaLine("entry", rows[j].id_parent, rows[j].proj_speed)])
    \o <<LuaText("comment", "-- Freeze the table for security and performance"),
         LuaText("freeze", "setmetatable(SpellProjectileSpeed, nil)"),
         LuaText("blank", ""),
         LuaText("global", "HeroDBC.DBC.SpellProjectileSpeed = SpellProjectileSpeed"),
         LuaText("return", "return SpellProjectileSpeed")>>

\* Conduits.write_lua_file: every chunk of entries ends with a newline, so
\* the footer's first "" is an empty line
conduits_write_lua_file(conduits) ==
    <<LuaText("comment", "-- Auto-generated conduit data"),
      LuaText("comment", "-- Format: [ConduitID] = SpellID"),
      LuaText("local", "local SpellConduits = {}"),
      LuaText("blank", ""),
      LuaText("comment", "-- Pre-allocate known size for better performance"),
      LuaText("default",
              "SpellConduits = setmetatable({}, {__index = function() return 0 end})"),
      LuaLine("comment", Len(conduits), "-- Estimated conduit entries count")>>
    \o [j \in 1..Len(conduits) |->
           LuaLine("entry", conduits[j].conduit_id, conduits[j].spell_id)]
    \o <<LuaText("blank", ""),
         LuaText("comment", "-- Freeze the table for security and performance"),
         LuaText("freeze", "setmetatable(SpellConduits, nil)"),
         LuaText("blank", ""),
         LuaText("global", "HeroDBC.DBC.SpellConduits = SpellConduits"),
         LuaText("return", "return SpellConduits")>>

\* SpellRPPM.writeLuaOutput: the whole file; the entries are the fields of
\* one table constructor
rppm_write_file(ids, base, m) ==
    LET items == writeLuaOutput(ids, base, m)
    IN <<LuaText("comment", "-- Generated using WoW 11.x.x client data"),
         LuaText("comment", "-- This file contains RPPM data for spells with proc effects"),
         LuaText("comment", "-- Optimized for high-performance lookups and DPS calculations"),
         LuaText("blank", ""),
         LuaText("local", "local RPPMData = {")>>
       \o [j \in 1..Len(items) |-> LuaLine("entry", items[j].item_id, items[j])]
       \o <<LuaText("close", "}"),
            LuaText("blank", ""),
            LuaText("blank", ""),
            LuaText("comment", "-- Fast lookup function for RPPM calculations"),
            LuaText("function", "local function GetRPPM(spellID, classID, specID) ... end"),
            LuaText("blank", ""),
            LuaText("global", "HeroDBC.DBC.SpellRPPM = RPPMData"),
            LuaText("global", "HeroDBC.DBC.GetRPPM = GetRPPM")>>

LuaUnits == {"SpellTickTime", "SpellProjectileSpeed", "Conduits", "SpellRPPM"}

\* the base values SpellRPPM's writer is given in the writers' runs
LuaBasePPM == Put(Put(EmptyDict, 1, 1000000), 2, 2500000)

\* the file the unit writes, from what it starts from
write_lua(unit, input) ==
    CASE unit = "SpellTickTime" -> tick_write_lua_file(input)
      [] unit = "SpellProjectileSpeed" ->
           proj_write_lua_file(proj_process_spell_misc_data(input))
      [] unit = "Conduits" ->
           conduits_write_lua_file(
               sorted_by(input, [i \in 1..Len(input) |-> input[i].conduit_id]))
      [] unit = "SpellRPPM" ->
           LET r == loadPPMID(input, 1, EmptyDict)
           IN IF r.raised THEN << >>
              ELSE rppm_write_file(r.ids, LuaBasePPM, EmptyDict)

(* Inputs *)

TickRow(id, amplitude, mechanic) ==
    [id |-> id, amplitude |-> amplitude, mechanic |-> mechanic]
MiscSpeedRow(p, s) == [id_parent |-> p, proj_speed |-> s]
ConduitRow(c, s) == [conduit_id |-> c, spell_id |-> s]

\* what a unit starts from: SpellTickTime the rows of process_spell_data,
\* one per spell; SpellProjectileSpeed the rows of SpellMisc.csv; Conduits the
\* conduits found, before they are sorted; SpellRPPM the rows of
\* SpellAuraOptions.csv
LuaRowSet(unit) ==
    CASE unit = "SpellTickTime" ->
           {TickRow(2, 1000, TRUE), TickRow(9, 3000, FALSE),
            TickRow(10, 1000, TRUE), TickRow(11, 2000, TRUE)}
      [] unit = "SpellProjectileSpeed" ->
           {MiscSpeedRow(Num(9), Num(20)), MiscSpeedRow(Num(10), Num(30)),
            MiscSpeedRow(Num(2), Rat(45, 2)), MiscSpeedRow(Num(2), Num(0)),
            MiscSpeedRow(NaN, Num(5))}
      [] unit = "Conduits" ->
           {ConduitRow(2, 100), ConduitRow(9, 101), ConduitRow(10, 102)}
      [] unit = "SpellRPPM" ->
           {AuraRow(Num(9), Num(1)), AuraRow(Num(10), Num(2)),
            AuraRow(Num(2), Num(1)), AuraRow(Num(11), Num(3))}

\* SpellTickTime has one row for a spell, the other units any rows
LuaInputs(unit) ==
    LET all == UNION {[1..n -> LuaRowSet(unit)] : n \in 0..MaxLuaRows}
    IN IF unit = "SpellTickTime"
       THEN {rows \in all : \A i, j \in 1..Len(rows) : rows[i].id = rows[j].id => i = j}
       ELSE all

InitLua ==
    /\ pc = "lua:write"
    /\ lua_unit \in LuaUnits
    /\ lua_input \in LuaInputs(lua_unit)
    /\ lua_file = << >>
    /\ IdleRPPM
    /\ IdleRange
    /\ IdleSoul
    /\ IdleAura
    /\ IdleAzerite
    /\ IdleReader
    /\ IdleLookup
    /\ IdleTree
    /\ IdleBatch
    /\ IdlePool
    /\ IdleTick
    /\ IdleOut
    /\ IdleFilter

\* the unit sorts its data and writes its file
WriteLua ==
    /\ pc = "lua:write"
    /\ lua_file' = write_lua(lua_unit, lua_input)
    /\ pc' = "lua:written"
    /\ UNCHANGED <<lua_unit, lua_input, notLua>>

NextLua == WriteLua

SpecLua == InitLua /\ [][NextLua]_vars

(* Properties of the Lua writers *)

\* the keys of the entry lines of the file, in the order of the file
EntryKeys ==
    LET IsEntry(line) == line.kind = "entry"
        lines == SelectSeq(lua_file, IsEntry)
    IN [j \in 1..Len(lines) |-> lines[j].key]

\* the keys the unit has an entity for
LuaKeys ==
    CASE lua_unit = "SpellTickTime" -> {lua_input[i].id : i \in 1..Len(lua_input)}
      [] lua_unit = "SpellProjectileSpeed" ->
           {lua_input[i].id_parent.n :
               i \in {k \in 1..Len(lua_input) : ProjectileRowValid(lua_input[k])}}
      [] lua_unit = "Conduits" -> {lua_input[i].conduit_id : i \in 1..Len(lua_input)}
      [] lua_unit = "SpellRPPM" ->
           {lua_input[i].id_parent.n :
               i \in {k \in 1..Len(lua_input) :
                         /\ lua_input[k].id_ppm.n # 0
                         /\ loadPPMID(lua_input, 1, EmptyDict).ids[lua_input[k].id_parent.n]
                                \in DOMAIN LuaBasePPM}}

\* C19: the entries of a written file are in ascending order of their
\* numeric key, and every entity of the input has its entry, in whatever
\* order the rows of the input came.
C19_EntriesAscendingByKey ==
    pc = "lua:written"
    => /\ \A i, j \in 1..Len(EntryKeys) : i < j => EntryKeys[i] <= EntryKeys[j]
       /\ {EntryKeys[j] : j \in 1..Len(EntryKeys)} = LuaKeys

\* C19 witness: SpellTickTime was given the spells 10, 2 and 9 in this order
\* and wrote the entries of 2, 9 and 10 in this order.
C19_Witness ==
    /\ pc = "lua:written"
    /\ lua_unit = "SpellTickTime"
    /\ Len(lua_input) = 3
    /\ <<lua_input[1].id, lua_input[2].id, lua_input[3].id>> = <<10, 2, 9>>
    /\ EntryKeys = <<2, 9, 10>>


\* the statements of the file: its lines without the empty lines and the
\* comments
Statements ==
    LET IsStatement(line) == line.kind \notin {"blank", "comment"}
    IN SelectSeq(lua_file, IsStatement)

\* C20: a written Lua file ends with the removal of the default
\* (setmetatable(T, nil)), then the assignment of the table to its
\* HeroDBC.DBC name, then the return of the table, and has no entry behind
\* the removal of the default.
C20_FooterFreezeGlobalReturn ==
    pc = "lua:written"
    => LET n == Len(Statements)
       IN /\ n >= 3
          /\ Statements[n - 2].kind = "freeze"
          /\ Statements[n - 1].kind = "global"
          /\ Statements[n].kind = "return"
          /\ \A i, j \in 1..n :
                (Statements[i].kind = "freeze" /\ i < j) => Statements[j].kind # "entry"


-----------------------------------------------------------------------------
(***************************************************************************)
(* The batches of the Lua writers (write_lua_file of SpellGCD,             *)
(* SpellTickTime, SpellMeleeRange).  The writer walks its sorted data,     *)
(* appends one entry line per record to the open batch and closes the      *)
(* batch on a condition on the position; after the loop the open batch is  *)
(* closed if it is not empty, and header, batches and footer are written.  *)
(* The sorted data are batch_n records; the entry line of the k-th record  *)
(* is the token k, and the line feed is the token 0, so the text written   *)
(* between the header (which ends with a line feed) and the footer (which  *)
(* starts with one) is a sequence of tokens.                               *)
(***************************************************************************)

\* the largest number of records of the sorted data
MaxEntries == 1001
\* rows of the table given to a worker pool
MaxPoolRows == 201
\* most rows of the SpellEffect.csv given to the tick-time unit
MaxTickRows == 3
\* most write calls that make the content of one output file
MaxOutWrites == 3
\* most filters of tasks.json
MaxFilters == 5

BatchUnits == {"SpellGCD", "SpellTickTime", "SpellMeleeRange"}

\* len(data): none, one, around one batch, two batches, and one more
EntryCounts ==
    {0, 1, CHUNK_SIZE - 1, CHUNK_SIZE, CHUNK_SIZE + 1, 2 * CHUNK_SIZE, MaxEntries}

\* mutation of closes_batch: no batch is closed inside the loop
closes_batch_Never(unit, i, n) == FALSE

\* the condition, after the entry of 0-based position i of n is appended,
\* on which the open batch is closed
closes_batch(unit, i, n) ==
    CASE unit = "SpellGCD" -> (i + 1) % CHUNK_SIZE = 0
      [] unit = "SpellTickTime" -> i % 500 = 0
      [] unit = "SpellMeleeRange" ->
            LET size == Min(CHUNK_SIZE, Max(100, n \div 10))
            IN i % size = size - 1

\* '\n'.join(texts)
RECURSIVE join(_)
join(texts) ==
    IF texts = << >> THEN << >>
    ELSE IF Len(texts) = 1 THEN texts[1]
    ELSE texts[1] \o <<0>> \o join(Tail(texts))

\* '\n'.join(chunk) of a batch of entry lines
join_lines(chunk) ==
    [k \in 1..(IF chunk = << >> THEN 0 ELSE 2 * Len(chunk) - 1) |->
        IF k % 2 = 1 THEN chunk[(k + 1) \div 2] ELSE 0]

\* the text the writer puts between header and footer
RECURSIVE write_chunks(_, _)
write_chunks(unit, batches) ==
    IF unit = "SpellGCD"
    THEN IF batches = << >> THEN << >>
         ELSE join_lines(Head(batches)) \o <<0>> \o write_chunks(unit, Tail(batches))
    ELSE join([k \in 1..Len(batches) |-> join_lines(batches[k])])

InitBatch ==
    /\ pc = "batch:loop"
    /\ batch_unit \in BatchUnits
    /\ batch_n \in EntryCounts
    /\ batch_i = 0
    /\ current_chunk = << >>
    /\ chunks = << >>
    /\ batch_text = << >>
    /\ IdleRPPM
    /\ IdleRange
    /\ IdleSoul
    /\ IdleAura
    /\ IdleAzerite
    /\ IdleReader
    /\ IdleLookup
    /\ IdleTree
    /\ IdleLua
    /\ IdlePool
    /\ IdleTick
    /\ IdleOut
    /\ IdleFilter

\* one iteration of the loop over the sorted data
BatchEntry ==
    /\ pc = "batch:loop"
    /\ batch_i < batch_n
    /\ LET chunk == Append(current_chunk, batch_i + 1)
       IN IF closes_batch(batch_unit, batch_i, batch_n)
          THEN /\ chunks' = Append(chunks, chunk)
               /\ current_chunk' = << >>
          ELSE /\ current_chunk' = chunk
               /\ UNCHANGED chunks
    /\ batch_i' = batch_i + 1
    /\ UNCHANGED <<pc, batch_unit, batch_n, batch_text, notBatch>>

\* after the loop: the open batch is closed if it holds a line, and the
\* batches are written
BatchWrite ==
    /\ pc = "batch:loop"
    /\ batch_i = batch_n
    /\ LET all == IF current_chunk # << >> THEN Append(chunks, current_chunk)
                  ELSE chunks
       IN /\ chunks' = all
          /\ batch_text' = write_chunks(batch_unit, all)
    /\ current_chunk' = << >>
    /\ pc' = "batch:written"
    /\ UNCHANGED <<batch_unit, batch_n, batch_i, notBatch>>

NextBatch == BatchEntry \/ BatchWrite

SpecBatch == InitBatch /\ [][NextBatch]_vars

(* Properties of the batches *)

\* the entry lines of the text, in the order of the text
TextEntries ==
    LET IsEntry(t) == t # 0
    IN SelectSeq(batch_text, IsEntry)

\* every entry line of the text ends at a line feed or at the footer
OneEntryPerLine ==
    \A k \in 1..(Len(batch_text) - 1) : batch_text[k] = 0 \/ batch_text[k + 1] = 0

\* C21: no batch, open or closed, ever holds more than CHUNK_SIZE (500)
\* entries, and once the file is written the batches in emission order,
\* and the lines of the text, are the sorted entries 1..n, each once and in
\* order, for 0, 1, 499, 500, 501, 1000 and 1001 entries
C21_BatchesBoundedAndComplete ==
    /\ Len(current_chunk) <= CHUNK_SIZE
    /\ \A k \in 1..Len(chunks) : Len(chunks[k]) <= CHUNK_SIZE
    /\ pc = "batch:written" =>
          /\ Flatten(chunks) = [k \in 1..batch_n |-> k]
          /\ TextEntries = [k \in 1..batch_n |-> k]
          /\ OneEntryPerLine

\* C21 witness: a file of an exact multiple of the batch size is written in
\* more than one batch
C21_Witness ==
    /\ pc = "batch:written"
    /\ batch_n = 2 * CHUNK_SIZE
    /\ Len(chunks) >= 2
    /\ \E k \in 1..Len(chunks) : Len(chunks[k]) = CHUNK_SIZE


-----------------------------------------------------------------------------
(***************************************************************************)
(* The units that process their rows with a worker pool: SpellGCD.py,      *)
(* SpellDuration.py, SpellEnchant.py.  process_spell_data (or              *)
(* process_spell_misc_data, process_enchant_data) cuts the rows into       *)
(* chunks, gives them to mp.Pool(CPU_COUNT).imap, collects the results in  *)
(* a list, and returns the items of all results sorted by the id.          *)
(*                                                                         *)
(* A row is [key, val]: id_parent and gcd_cooldown (SpellGCD), id_parent   *)
(* and id_duration (SpellDuration), id and id_property_1 (SpellEnchant).   *)
(* A GCD and a duration are kept in units of 10^-3 (the code rounds them   *)
(* to 3 digits and writes them with 3 digits).                             *)
(***************************************************************************)

\* MAX_VALID_GCD = 1.5, in units of 10^-3
MAX_VALID_GCD == 1500
\* digits kept by round(gcd, GCD_PRECISION)
GCD_PRECISION == 3
GcdUnit == 10 ^ GCD_PRECISION

\* GCD_RANGES.values(), in units of 10^-3
GCD_RANGES ==
    {<<0, 0>>, <<100, 250>>, <<500, 1500>>, <<2000, 20000>>,
     <<30000, 180000>>, <<181000, 2000000>>}

\* validate_gcd of a rounded gcd
validate_gcd(gcd) ==
    \/ gcd = 0
    \/ \E r \in GCD_RANGES : r[1] <= gcd /\ gcd <= r[2]

\* int(text) converts
IsInt(f) == f.ok /\ f.d = 1

\* mutation of to_seconds: a value at the threshold is rescaled too
to_seconds_AtThreshold(f) ==
    IF GcdUnit * f.n >= MAX_VALID_GCD * f.d THEN Rat(f.n, f.d * 1000) ELSE f

\* if gcd > MAX_VALID_GCD: gcd = gcd / 1000.0
to_seconds(f) ==
    IF GcdUnit * f.n > MAX_VALID_GCD * f.d THEN Rat(f.n, f.d * 1000) ELSE f

\* round(gcd, GCD_PRECISION), in units of 10^-3
round_gcd(f) == RoundHalfEven(GcdUnit * f.n, f.d)

PoolRecord(key, value) == [key |-> key, value |-> value]

\* SpellGCD.process_chunk: the row appends a GCDData
gcd_appends(row) ==
    /\ IsInt(row.key) /\ row.val.ok
    /\ row.key.n > 0
    /\ validate_gcd(round_gcd(to_seconds(row.val)))

\* SpellDuration.process_spell_chunk: the row appends a DurationData
duration_appends(row, durations) ==
    /\ IsInt(row.val) /\ row.val.n > 0
    /\ row.val \in DOMAIN durations
    /\ IsInt(row.key)

\* SpellEnchant.process_chunk: the row appends an EnchantData
enchant_appends(row) ==
    /\ IsInt(row.val) /\ row.val.n > 0
    /\ IsInt(row.key)

\* process_chunk of the unit: the records of the rows that append one, in the
\* order of the rows
pool_process_chunk(unit, chunk, durations) ==
    LET appends(row) ==
            CASE unit = "SpellGCD" -> gcd_appends(row)
              [] unit = "SpellDuration" -> duration_appends(row, durations)
              [] unit = "SpellEnchant" -> enchant_appends(row)
        kept == RowsAt(chunk, {i \in 1..Len(chunk) : appends(chunk[i])})
    IN  [j \in 1..Len(kept) |->
            CASE unit = "SpellGCD" ->
                    PoolRecord(kept[j].key.n, round_gcd(to_seconds(kept[j].val)))
              [] unit = "SpellDuration" ->
                    PoolRecord(kept[j].key.n, durations[kept[j].val])
              [] unit = "SpellEnchant" ->
                    PoolRecord(kept[j].key.n, kept[j].val.n)]

\* mutation of imap_next: pool.imap_unordered
imap_next_Unordered(received, done) == (DOMAIN done) \ received

\* pool.imap: the chunk whose result the iterator can yield next, when the
\* chunks of received are yielded: the chunk after them, once it is finished
imap_next(received, done) == {Cardinality(received) + 1} \cap DOMAIN done

\* sorted(items, key=lambda x: x.spell_id)
sorted_by_id(items) == StableSort(items, [i \in 1..Len(items) |-> items[i].key])


(* Inputs of the worker pool *)

PoolUnits == {"SpellGCD", "SpellDuration", "SpellEnchant"}

PoolRow(key, val) == [key |-> key, val |-> val]

\* the durations of process_duration_data: id text -> (base, max)
PoolDurations ==
    Put(Put(EmptyDict, Num(1), <<1000, 1300>>), Num(2), <<2500, 3250>>)

PoolKeys == {Num(7), Num(3), Num(0), NaN}

\* gcd_cooldown: none, seconds, the threshold, milliseconds, values no range
\* holds, a value rounded to 0, a negative value, text that is no number
PoolVals(unit) ==
    CASE unit = "SpellGCD" ->
            {Num(0), Num(1), Rat(3, 2), Rat(1501, 1000), Num(2), Num(300),
             Num(1500), Num(20000), Rat(4, 10000), Rat(12344, 10000), Num(-1), NaN}
      [] unit = "SpellDuration" -> {Num(1), Num(2), Num(5), Num(0), NaN}
      [] unit = "SpellEnchant" -> {Num(11), Num(12), Num(0), Rat(5, 2), NaN}

\* a row process_chunk drops
PoolFiller == PoolRow(NaN, NaN)

\* the rows where a chunk starts or ends
PoolPositions == {1, 100, 101, MaxPoolRows}

\* the empty table, and tables of MaxPoolRows rows: any row at the row a, a
\* row of id 7 at the later row b, every other row dropped
PoolTables(unit) ==
    {<< >>} \cup
    { [i \in 1..MaxPoolRows |-> IF i = a THEN ra ELSE IF i = b THEN rb ELSE PoolFiller] :
        <<a, b, ra, rb>> \in
            {t \in PoolPositions \X PoolPositions
                     \X {PoolRow(k, v) : k \in PoolKeys, v \in PoolVals(unit)}
                     \X {PoolRow(Num(7), v) : v \in PoolVals(unit)} :
                t[1] < t[2]} }

(* process_spell_data and write_lua_file of a unit with a worker pool *)

PoolChunkSize == chunk_size(pool_rows, pool_cpus)
PoolChunks == 1..NumChunks(pool_rows, PoolChunkSize)

InitPool ==
    /\ pc = "pool:imap"
    /\ pool_unit \in PoolUnits
    /\ pool_rows \in PoolTables(pool_unit)
    /\ pool_cpus \in {CPU_COUNT(c) : c \in 1..MaxCores}
    /\ pool_done = << >>
    /\ pool_results = << >>
    /\ pool_sorted = << >>
    /\ pool_file = << >>
    /\ IdleRPPM
    /\ IdleRange
    /\ IdleSoul
    /\ IdleAura
    /\ IdleAzerite
    /\ IdleReader
    /\ IdleLookup
    /\ IdleTree
    /\ IdleLua
    /\ IdleBatch
    /\ IdleTick
    /\ IdleOut
    /\ IdleFilter

\* a worker finishes its chunk.  The pool gives the chunks to its CPU_COUNT
\* workers in order, so a chunk runs once fewer than CPU_COUNT chunks before
\* it are unfinished; the chunks that run finish in any order.
PoolFinish ==
    /\ pc = "pool:imap"
    /\ \E k \in PoolChunks \ DOMAIN pool_done :
          /\ Cardinality({j \in PoolChunks \ DOMAIN pool_done : j < k}) < pool_cpus
          /\ pool_done' = Put(pool_done, k,
                 pool_process_chunk(pool_unit, Chunk(pool_rows, k, PoolChunkSize),
                                    PoolDurations))
    /\ UNCHANGED <<pc, pool_unit, pool_rows, pool_cpus, pool_results, pool_sorted,
                   pool_file, notPool>>

\* the chunks whose results the main process holds
PoolReceived == {pool_results[i].chunk : i \in 1..Len(pool_results)}

\* results = list(pool.imap(process_chunk, chunks)): the next result arrives
PoolReceive ==
    /\ pc = "pool:imap"
    /\ \E k \in imap_next(PoolReceived, pool_done) :
          pool_results' = Append(pool_results, [chunk |-> k, items |-> pool_done[k]])
    /\ UNCHANGED <<pc, pool_unit, pool_rows, pool_cpus, pool_done, pool_sorted,
                   pool_file, notPool>>

\* the list is complete: return sorted(item for chunk in results for item in chunk)
PoolSorted ==
    /\ pc = "pool:imap"
    /\ Len(pool_results) = Cardinality(PoolChunks)
    /\ pool_sorted' =
          sorted_by_id(Flatten([i \in 1..Len(pool_results) |-> pool_results[i].items]))
    /\ pc' = "pool:write_lua_file"
    /\ UNCHANGED <<pool_unit, pool_rows, pool_cpus, pool_done, pool_results,
                   pool_file, notPool>>

\* write_lua_file: one entry per record, in the order of the list
PoolWrite ==
    /\ pc = "pool:write_lua_file"
    /\ pool_file' = pool_sorted
    /\ pc' = "pool:written"
    /\ UNCHANGED <<pool_unit, pool_rows, pool_cpus, pool_done, pool_results,
                   pool_sorted, notPool>>

NextPool ==
    \/ PoolFinish
    \/ PoolReceive
    \/ PoolSorted
    \/ PoolWrite

SpecPool == InitPool /\ [][NextPool]_vars

(* Properties of the worker pool *)

\* the result of process_chunk on each chunk, in the order of the chunks
ChunkResults ==
    [k \in PoolChunks |->
        pool_process_chunk(pool_unit, Chunk(pool_rows, k, PoolChunkSize), PoolDurations)]

\* C22: the sort and the serialization start only when every chunk is
\* finished, and the file holds the results of the chunks, concatenated in the
\* order of the chunks and sorted by the id: a sequence fixed by the rows,
\* the same for every order in which the workers finish
C22_SortedAfterAllChunks ==
    /\ pc \in {"pool:write_lua_file", "pool:written"} =>
          /\ DOMAIN pool_done = PoolChunks
          /\ pool_sorted = sorted_by_id(Flatten(ChunkResults))
          /\ \A i \in 1..(Len(pool_sorted) - 1) :
                pool_sorted[i].key <= pool_sorted[i + 1].key
    /\ pc = "pool:written" => pool_file = sorted_by_id(Flatten(ChunkResults))

\* C22 witness: a file is written whose two entries have one id and different
\* values, the records of two different chunks
C22_Witness ==
    /\ pc = "pool:written"
    /\ Len(pool_file) = 2
    /\ pool_file[1].key = pool_file[2].key
    /\ pool_file[1].value # pool_file[2].value
    /\ Len(pool_done[1]) = 1
    /\ Len(pool_done[2]) = 1


(* Properties of the GCD unit *)

\* the rows of a chunk with a spell id > 0 and a gcd_cooldown that converts
GcdCandidates(chunk) ==
    {i \in 1..Len(chunk) :
        IsInt(chunk[i].key) /\ chunk[i].key.n > 0 /\ chunk[i].val.ok}

\* the raw value n/d, divided by 1000 when it is above 3/2
Rescaled(f) ==
    IF 2 * f.n > 3 * f.d THEN [n |-> f.n, d |-> f.d * 1000] ELSE [n |-> f.n, d |-> f.d]

\* g / 1000 is a multiple of 0.001 nearest to x
NearestMilli(x, g) ==
    LET diff == 1000 * x.n - g * x.d
    IN  2 * (IF diff >= 0 THEN diff ELSE -diff) <= x.d

\* x is 0 or lies in a range of GCD_RANGES
InGcdRange(x) ==
    \/ x.n = 0
    \/ \E r \in GCD_RANGES : r[1] * x.d <= 1000 * x.n /\ 1000 * x.n <= r[2] * x.d

\* the chunks of the GCD unit that a worker has finished
GcdChunksDone == IF pool_unit = "SpellGCD" THEN DOMAIN pool_done ELSE {}

\* C28 as stated: the value that is validated and emitted is the raw value,
\* divided by 1000 when above 1.5 and unchanged otherwise
C28_RescaledOrUnchanged ==
    \A k \in GcdChunksDone :
        LET chunk == Chunk(pool_rows, k, PoolChunkSize)
            out == pool_done[k]
            emits(i) == InGcdRange(Rescaled(chunk[i].val))
        IN  /\ Len(out) = Cardinality({i \in GcdCandidates(chunk) : emits(i)})
            /\ \A i \in GcdCandidates(chunk) :
                  emits(i) =>
                      \E j \in 1..Len(out) :
                          /\ out[j].key = chunk[i].key.n
                          /\ out[j].value * Rescaled(chunk[i].val).d
                                = 1000 * Rescaled(chunk[i].val).n

\* C28, amended: a raw value above 1.5 is divided by 1000 and a raw value at or
\* below 1.5 is not; the value is then rounded to 3 digits, and the rounded
\* value is validated and emitted; a record is emitted only for a spell id > 0,
\* and every emitted value is 0 or lies inside one of the GCD ranges
C28_RescaledRoundedValidated ==
    \A k \in GcdChunksDone :
        LET chunk == Chunk(pool_rows, k, PoolChunkSize)
            out == pool_done[k]
            x(i) == Rescaled(chunk[i].val)
            q(i) == (1000 * x(i).n) \div x(i).d
            rounded(i) == {g \in {q(i), q(i) + 1} : NearestMilli(x(i), g)}
            emits(i) == \E g \in rounded(i) : InGcdRange([n |-> g, d |-> 1000])
        IN  /\ \A j \in 1..Len(out) :
                  /\ out[j].key > 0
                  /\ InGcdRange([n |-> out[j].value, d |-> 1000])
            /\ Len(out) = Cardinality({i \in GcdCandidates(chunk) : emits(i)})
            /\ \A i \in GcdCandidates(chunk) :
                  emits(i) =>
                      \E j \in 1..Len(out) :
                          /\ out[j].key = chunk[i].key.n
                          /\ out[j].value \in rounded(i)

\* C28 witness: a chunk holds a value in milliseconds that is rescaled and
\* emitted, and a value below the threshold that is emitted rounded
C28_Witness ==
    \E k \in GcdChunksDone :
        LET chunk == Chunk(pool_rows, k, PoolChunkSize)
        IN  /\ Len(pool_done[k]) = 2
            /\ \E i, j \in GcdCandidates(chunk) :
                  /\ chunk[i].val = Num(1500)
                  /\ chunk[j].val = Rat(12344, 10000)
                  /\ pool_done[k][1].value = 1500
                  /\ pool_done[k][2].value = 1234


(* Chunks of the SpellAuraStat unit *)

\* C27: the results of the chunks, concatenated in the order of the chunks,
\* are the records process_chunk gives for the whole table as one chunk,
\* whatever the chunk size
C27_ChunkedEqualsWhole ==
    pc \in {"SpellAuraStat:write_lua_file", "SpellAuraStat:done"} =>
        \A r \in {1, 2} : Flatten(results[r]) = process_chunk(effect_data)


(* Keys of the Lua file of a unit with a worker pool *)

\* C29: no two entries of the file written assign the same key
C29_EachKeyAssignedOnce ==
    pc = "pool:written" =>
        \A i, j \in 1..Len(pool_file) : pool_file[i].key = pool_file[j].key => i = j


-----------------------------------------------------------------------------
(***************************************************************************)
(* SpellTickTime.py, process_spell_data.  A row of SpellEffect.csv is      *)
(* [id_parent, amplitude, id_mechanic, id_effect]; id_mechanic is compared *)
(* as text and is kept as a string here, the other fields are converted    *)
(* with int().                                                             *)
(***************************************************************************)

valid_mechanics == {"6", "7", "8"}

\* the dict appended to spell_groups[parent_id]
TickEffect(row) ==
    [amplitude |-> row.amplitude.n,
     mechanic |-> row.id_mechanic # "15",
     effect_type |-> row.id_effect.n,
     priority |-> row.id_mechanic \in valid_mechanics]

\* the row reaches the append: amplitude converts and is > 0, id_parent and
\* id_effect convert
tick_row_kept(row) ==
    /\ IsInt(row.amplitude) /\ row.amplitude.n > 0
    /\ IsInt(row.id_parent)
    /\ IsInt(row.id_effect)

\* mutation of key_greater: the key is the amplitude alone
key_greater_AmplitudeOnly(a, b) == a.amplitude > b.amplitude

\* (a['priority'], a['amplitude']) > (b['priority'], b['amplitude'])
key_greater(a, b) ==
    \/ a.priority /\ ~b.priority
    \/ a.priority = b.priority /\ a.amplitude > b.amplitude

\* effects.sort(key=..., reverse=True): descending by key, effects of equal
\* key in their order
sort_reverse(effects) ==
    LET n == Len(effects)
        rank(i) == 1 + Cardinality({j \in 1..n :
                          \/ key_greater(effects[j], effects[i])
                          \/ /\ ~key_greater(effects[i], effects[j])
                             /\ ~key_greater(effects[j], effects[i])
                             /\ j < i})
    IN  [p \in 1..n |-> effects[CHOOSE i \in 1..n : rank(i) = p]]

\* the second loop: one row per group, in the order of spell_groups.items()
tick_valid_rows(groups, keys) ==
    [k \in 1..Len(keys) |->
        LET effects == sort_reverse(groups[keys[k]])
        IN  [id |-> keys[k],
             amplitude |-> effects[1].amplitude,
             mechanic |-> effects[1].mechanic]]

(* Inputs *)

TickCsvRow(p, a, m, e) == [id_parent |-> p, amplitude |-> a, id_mechanic |-> m, id_effect |-> e]

\* rows of two spells: priority and other mechanics, amplitudes that tie,
\* an amplitude of 0, an id_effect that does not convert
TickRowSet ==
    {TickCsvRow(Num(p), t[1], t[2], t[3]) :
        p \in {7, 3},
        t \in {<<Num(1000), "6", Num(6)>>,
               <<Num(3000), "15", Num(6)>>,
               <<Num(3000), "7", Num(6)>>,
               <<Num(1000), "0", Num(6)>>,
               <<Num(3000), "0", Num(6)>>,
               <<Num(0), "8", Num(6)>>,
               <<Num(5000), "8", NaN>>}}

TickTables == UNION {[1..n -> TickRowSet] : n \in 0..MaxTickRows}

(* process_spell_data *)

InitTick ==
    /\ pc = "tick:group"
    /\ csv_data \in TickTables
    /\ csv_pos = 0
    /\ spell_groups = EmptyDict
    /\ group_keys = << >>
    /\ tick_records = << >>
    /\ IdleRPPM
    /\ IdleRange
    /\ IdleSoul
    /\ IdleAura
    /\ IdleAzerite
    /\ IdleReader
    /\ IdleLookup
    /\ IdleTree
    /\ IdleLua
    /\ IdleBatch
    /\ IdlePool
    /\ IdleOut
    /\ IdleFilter

\* one iteration of the grouping loop
TickGroupRow ==
    /\ pc = "tick:group"
    /\ csv_pos < Len(csv_data)
    /\ LET row == csv_data[csv_pos + 1]
           id == row.id_parent.n
       IN  IF tick_row_kept(row)
           THEN /\ spell_groups' =
                      Put(spell_groups, id, Append(Get(spell_groups, id, << >>), TickEffect(row)))
                /\ group_keys' = IF id \in DOMAIN spell_groups THEN group_keys
                                 ELSE Append(group_keys, id)
           ELSE UNCHANGED <<spell_groups, group_keys>>
    /\ csv_pos' = csv_pos + 1
    /\ UNCHANGED <<pc, csv_data, tick_records, notTick>>

\* the loop over the groups, and the return
TickReturn ==
    /\ pc = "tick:group"
    /\ csv_pos = Len(csv_data)
    /\ tick_records' = tick_valid_rows(spell_groups, group_keys)
    /\ pc' = "tick:returned"
    /\ UNCHANGED <<csv_data, csv_pos, spell_groups, group_keys, notTick>>

NextTick == TickGroupRow \/ TickReturn

SpecTick == InitTick /\ [][NextTick]_vars

(* Properties of the tick-time unit *)

\* the rows of spell s that convert and have a positive amplitude
TickCandidates(s) ==
    {i \in 1..Len(csv_data) :
        /\ IsInt(csv_data[i].id_parent) /\ csv_data[i].id_parent.n = s
        /\ IsInt(csv_data[i].amplitude) /\ csv_data[i].amplitude.n > 0
        /\ IsInt(csv_data[i].id_effect)}

\* row i comes before row j: priority mechanic first, then the larger
\* amplitude, then the earlier row
TickBefore(i, j) ==
    LET pi == csv_data[i].id_mechanic \in {"6", "7", "8"}
        pj == csv_data[j].id_mechanic \in {"6", "7", "8"}
        ai == csv_data[i].amplitude.n
        aj == csv_data[j].amplitude.n
    IN  \/ pi /\ ~pj
        \/ pi = pj /\ ai > aj
        \/ pi = pj /\ ai = aj /\ i < j

C25_SerializingLeavesRecords ==
    [][(pc \in {"AzeritePower:write_with_items", "AzeritePower:write_without_items"})
          => (azerite_powers' = azerite_powers)]_vars


-----------------------------------------------------------------------------
(***************************************************************************)
(* The output files of a unit (Conduits.main: write_json_file, then        *)
(* write_lua_file; SpellRPPM.writeLuaOutput).  Every writer opens its      *)
(* destination with open(path, 'w'), which truncates the file, and puts    *)
(* the content there with a series of write calls inside the with block.   *)
(* An I/O error (a full disk, a lost mount) can make open or any write     *)
(* call raise; the writer logs it and raises again, and main ends the      *)
(* unit.  A file is [exists, text], text the sequence of the pieces        *)
(* written; the k-th write call of the new content of file f writes the    *)
(* piece <<f, k>>, and the piece <<f, 0>> is the content of an earlier run. *)
(***************************************************************************)

OutUnits == {"Conduits", "SpellRPPM"}

\* the files of a unit, in the order main() writes them
OutFiles(unit) ==
    IF unit = "Conduits" THEN <<"Conduits.json", "SpellConduits.lua">>
    ELSE <<"SpellRPPM.lua">>

OutFileSet(unit) == {OutFiles(unit)[i] : i \in 1..Len(OutFiles(unit))}

NoFile == [exists |-> FALSE, text |-> << >>]
OldFile(f) == [exists |-> TRUE, text |-> <<<<f, 0>>>>]

\* the complete new content of file f, made by m write calls
NewFile(f, m) == [exists |-> TRUE, text |-> [k \in 1..m |-> <<f, k>>]]

InitOut ==
    /\ pc = "out:open"
    /\ out_unit \in OutUnits
    /\ out_writes \in [OutFileSet(out_unit) -> 1..MaxOutWrites]
    /\ disk_before \in {d \in [OutFileSet(out_unit) -> {NoFile} \cup {OldFile(f) : f \in OutFileSet(out_unit)}] :
                          \A f \in DOMAIN d : d[f] \in {NoFile, OldFile(f)}}
    /\ disk = disk_before
    /\ out_file = 1
    /\ out_written = 0
    /\ IdleRPPM
    /\ IdleRange
    /\ IdleSoul
    /\ IdleAura
    /\ IdleAzerite
    /\ IdleReader
    /\ IdleLookup
    /\ IdleTree
    /\ IdleLua
    /\ IdleBatch
    /\ IdlePool
    /\ IdleTick
    /\ IdleFilter

\* the file being written
OutFile == OutFiles(out_unit)[out_file]

\* output_file.open('w'): the file is created or truncated
OutOpen ==
    /\ pc = "out:open"
    /\ disk' = Put(disk, OutFile, [exists |-> TRUE, text |-> << >>])
    /\ out_written' = 0
    /\ pc' = "out:write"
    /\ UNCHANGED <<out_unit, out_writes, disk_before, out_file, notOut>>

\* open raises (no permission, no directory): the writer raises, the unit ends
OutOpenRaises ==
    /\ pc = "out:open"
    /\ pc' = "out:failed"
    /\ UNCHANGED <<varsOut, notOut>>

\* file.write(...): the next piece is written
OutWrite ==
    /\ pc = "out:write"
    /\ out_written < out_writes[OutFile]
    /\ disk' = Put(disk, OutFile,
                   [exists |-> TRUE,
                    text |-> Append(disk[OutFile].text, <<OutFile, out_written + 1>>)])
    /\ out_written' = out_written + 1
    /\ UNCHANGED <<pc, out_unit, out_writes, disk_before, out_file, notOut>>

\* file.write(...) raises: the with block closes the file, of which the
\* pieces written before are kept or lost with the buffer; the writer raises
\* and the unit ends
OutWriteRaises ==
    /\ pc = "out:write"
    /\ out_written < out_writes[OutFile]
    /\ \E kept \in 0..out_written :
          disk' = Put(disk, OutFile,
                      [exists |-> TRUE, text |-> SubSeq(disk[OutFile].text, 1, kept)])
    /\ pc' = "out:failed"
    /\ UNCHANGED <<out_unit, out_writes, disk_before, out_file, out_written, notOut>>

\* the with block ends: the file is closed, main() goes on to the next writer
\* or returns
OutClose ==
    /\ pc = "out:write"
    /\ out_written = out_writes[OutFile]
    /\ IF out_file < Len(OutFiles(out_unit))
       THEN /\ out_file' = out_file + 1
            /\ pc' = "out:open"
       ELSE /\ out_file' = out_file
            /\ pc' = "out:done"
    /\ out_written' = 0
    /\ UNCHANGED <<out_unit, out_writes, disk_before, disk, notOut>>

NextOut ==
    \/ OutOpen
    \/ OutOpenRaises
    \/ OutWrite
    \/ OutWriteRaises
    \/ OutClose

SpecOut == InitOut /\ [][NextOut]_vars

(* Properties of the output files *)

\* C23: when the unit has ended, every output file holds its complete new
\* content if the unit succeeded, and is exactly the file of before the run if
\* the unit failed, at whatever step
C23_NewContentOrUntouched ==
    /\ pc = "out:done" =>
          \A f \in OutFileSet(out_unit) : disk[f] = NewFile(f, out_writes[f])
    /\ pc = "out:failed" =>
          \A f \in OutFileSet(out_unit) : disk[f] = disk_before[f]


(* Conversion failures in the SpellRPPM unit *)

\* the base PPM of the rows of a table that convert and have a ppm > 0, a
\* later row of an id replacing an earlier one
WellFormedBase(t) ==
    LET ok == {i \in 1..Len(t) : t[i].id.ok /\ t[i].ppm.ok /\ t[i].ppm.n > 0}
    IN  [k \in {t[i].id.n : i \in ok} |->
            RoundPPM(t[CHOOSE i \in ok : t[i].id.n = k /\ \A j \in ok : t[j].id.n = k => j <= i].ppm)]

\* C24: a row of SpellProcsPerMinute.csv that fails to convert does not end
\* the unit, and loadBasePPM returns the base PPM of every row of the table
\* that converts (with a ppm > 0)
C24_ConversionFailureDropsOnlyItsRow ==
    [][(pc = "loadBasePPM") =>
          /\ pc' = "loadModPPM"
          /\ \E t \in PpmTables : base_ppm' = WellFormedBase(t)]_vars


-----------------------------------------------------------------------------
(***************************************************************************)
(* filter.py, FilterProcessor.run.  The main thread submits one task per   *)
(* filter of tasks.json to a ThreadPoolExecutor(max_workers=4) inside a    *)
(* with block, leaves the block, and calls update_lua_metadata.  A task is *)
(* "queued" when submitted, "running" when a worker thread has taken it,   *)
(* and "succeeded" or "failed" when process_filter has returned            *)
(* (process_filter catches every exception and a non-zero return code of   *)
(* the filter script, so the task itself always returns).                  *)
(***************************************************************************)

\* ThreadPoolExecutor(max_workers=4)
max_workers == 4

FilterFinished == {"succeeded", "failed"}

\* the tasks in a state of S
TasksIn(S) == {i \in 1..Len(filter_tasks) : filter_tasks[i] \in S}

\* mutation of shutdown_returns: executor.shutdown(wait=False)
shutdown_returns_NoWait(tasks) == TRUE

\* the with block of the executor ends with shutdown(wait=True), which
\* returns when every submitted task has finished
shutdown_returns(tasks) == \A i \in 1..Len(tasks) : tasks[i] \in FilterFinished

InitFilter ==
    /\ pc = "filter:submit"
    /\ filter_names \in 0..MaxFilters
    /\ filter_tasks = << >>
    /\ IdleRPPM
    /\ IdleRange
    /\ IdleSoul
    /\ IdleAura
    /\ IdleAzerite
    /\ IdleReader
    /\ IdleLookup
    /\ IdleTree
    /\ IdleLua
    /\ IdleBatch
    /\ IdlePool
    /\ IdleTick
    /\ IdleOut

\* executor.submit(self.process_filter, filter_name), for the next filter
FilterSubmit ==
    /\ pc = "filter:submit"
    /\ Len(filter_tasks) < filter_names
    /\ filter_tasks' = Append(filter_tasks, "queued")
    /\ UNCHANGED <<pc, filter_names, notFilter>>

\* a worker thread takes the task that waits longest; at most max_workers
\* threads exist
FilterStart ==
    /\ TasksIn({"queued"}) # {}
    /\ Cardinality(TasksIn({"running"})) < max_workers
    /\ LET i == CHOOSE k \in TasksIn({"queued"}) : \A j \in TasksIn({"queued"}) : k <= j
       IN  filter_tasks' = [filter_tasks EXCEPT ![i] = "running"]
    /\ UNCHANGED <<pc, filter_names, notFilter>>

\* process_filter returns: the filter script ended with return code 0, or it
\* failed and the failure was printed
FilterReturn ==
    /\ \E i \in TasksIn({"running"}) : \E result \in FilterFinished :
          filter_tasks' = [filter_tasks EXCEPT ![i] = result]
    /\ UNCHANGED <<pc, filter_names, notFilter>>

\* the loop is over and the with block of the executor is left
FilterShutdown ==
    /\ pc = "filter:submit"
    /\ Len(filter_tasks) = filter_names
    /\ shutdown_returns(filter_tasks)
    /\ pc' = "filter:update_lua_metadata"
    /\ UNCHANGED <<filter_names, filter_tasks, notFilter>>

\* self.update_lua_metadata(version)
FilterUpdateMetadata ==
    /\ pc = "filter:update_lua_metadata"
    /\ pc' = "filter:done"
    /\ UNCHANGED <<filter_names, filter_tasks, notFilter>>

NextFilter ==
    \/ FilterSubmit
    \/ FilterStart
    \/ FilterReturn
    \/ FilterShutdown
    \/ FilterUpdateMetadata

SpecFilter == InitFilter /\ [][NextFilter]_vars

(* Properties of FilterProcessor.run *)

\* C30: when update_lua_metadata starts, and from then on, a task has been
\* submitted for every filter and every task has finished, succeeded or
\* failed; never more than four filters run at once
C30_MetadataAfterAllFilters ==
    /\ Cardinality(TasksIn({"running"})) <= 4
    /\ pc \in {"filter:update_lua_metadata", "filter:done"} =>
          /\ Len(filter_tasks) = filter_names
          /\ TasksIn({"succeeded", "failed"}) = 1..filter_names

\* C30 witness: the metadata update starts after five filters, one more than
\* the workers, of which the first failed and the last succeeded
C30_Witness ==
    /\ pc = "filter:update_lua_metadata"
    /\ filter_names = 5
    /\ filter_tasks[1] = "failed"
    /\ filter_tasks[5] = "succeeded"

=============================================================================
